---- MODULE Spec2Model ----
(***************************************************************************)
(* Totsuki backend: the meal-plan engine (services/planner.py, the         *)
(* /plan/generate route), the receipt name normalizer, the similarity      *)
(* scorer, the pantry matcher and the category inference                   *)
(* (utils/normalize.py), the receipt preview (services/receipt.py), and    *)
(* the routes POST /inventory/consume and POST /ingest-receipt/confirm     *)
(* on the pantry and receipt tables.                                       *)
(*                                                                         *)
(* Numbers.  Costs and budgets are whole dollars, protein whole grams.     *)
(* Recipe scores are kept as integers scaled by ScoreScale, similarity     *)
(* scores as exact fractions <<numerator, denominator>>.  Optional         *)
(* numeric request fields use None; optional tag lists are sets, where     *)
(* the empty set stands for both None and [] (the code only tests their    *)
(* truthiness).  Strings are tuples of one-character strings.              *)
(***************************************************************************)
EXTENDS Integers, Sequences, FiniteSets, TLC

VARIABLES
    recipes,        \* the recipe catalog, in the order the route fetches it
    request,        \* the PlanRequest of the call
    plan,           \* outcome of the last plan generation
    scored_in,      \* _select_with_variety: its score-sorted input
    selected_out,   \* _select_with_variety: its result
    raw_name,       \* normalize_item_name: the raw receipt name
    normalized,     \* the successive results of normalize_item_name
    name1,          \* calculate_similarity: first argument
    name2,          \* calculate_similarity: second argument
    similarity,     \* calculate_similarity: its result
    receipt_name,   \* find_best_match: the raw receipt name
    pantry_items,   \* find_best_match: the pantry rows, in list order
    match,          \* find_best_match: its result
    item_name,      \* infer_category: the normalized name
    category,       \* infer_category: its result, "" before the call
    parsed_items,   \* rows of parse_csv_content given to create_receipt_preview
    stored_pantry,  \* rows of get_all_pantry_items_for_matching
    preview,        \* the CSVParseResponse, NoPreview before the call
    pantry_updates, \* (updates, creates) of prepare_pantry_updates
    selected,       \* the 7 recipes _select_with_variety returned
    servings_per_day, \* request.servings_per_day
    outputs,        \* days, shopping_list and summary of the plan
    pantry_table,   \* the pantry_items table, in id order
    receipt_table,  \* the receipt_items table, in insertion order
    consume_call,   \* the PantryItemConsume body of POST /inventory/consume
    consume_response, \* what consume_inventory_item answered
    confirm_call,   \* the ReceiptConfirmRequest of POST /receipt/confirm
    confirm_response, \* what confirm_receipt answered
    score_recipe,   \* _score_recipe: the recipe
    score_request,  \* _score_recipe: the PlanRequest
    recipe_score,   \* _score_recipe: its result and the random draw in it
    op_count,       \* requests answered so far in a session of requests
    last_op,        \* the route of the last request and its status code
    database,       \* the committed row of one pantry item and its write lock
    db_sessions,    \* the requests running in their own sessions
    start_quantity  \* the quantity of the item before the requests

plannerVars == <<recipes, request, plan>>
selectVars == <<scored_in, selected_out>>
normalizeVars == <<raw_name, normalized>>
similarityVars == <<name1, name2, similarity>>
matchVars == <<receipt_name, pantry_items, match>>
categoryVars == <<item_name, category>>
previewVars == <<parsed_items, stored_pantry, preview, pantry_updates>>
outputVars == <<selected, servings_per_day, outputs>>
inventoryVars == <<pantry_table, receipt_table, consume_call, consume_response,
                   confirm_call, confirm_response>>
scoreVars == <<score_recipe, score_request, recipe_score>>
sessionVars == <<op_count, last_op>>
concurrencyVars == <<database, db_sessions, start_quantity>>

vars == <<plannerVars, selectVars, normalizeVars, similarityVars, matchVars,
         categoryVars,
         previewVars,
         outputVars,
         inventoryVars,
         scoreVars,
         sessionVars,
         concurrencyVars>>

\* ------------------------------------------------------------------ bounds
MaxRecipes == 8     \* largest catalog
MaxScored == 8      \* longest list handed to _select_with_variety alone
RngPeriod == 2      \* the random stream repeats after this many draws
MaxNameLen == 4     \* longest raw name built from NameChars
MaxSimLen == 3      \* longest string handed to calculate_similarity alone
MaxPantry == 2      \* most pantry rows handed to find_best_match
MaxNameWords == 2   \* most words of a name handed to infer_category alone

\* receipt rows in one upload
MaxRows == 2

\* largest servings_per_day of a plan request
MaxServings == 2

\* rows of the pantry table before a call
MaxItems == 2

\* largest quantity of a pantry row before a call
MaxQuantity == 3

\* most cuisine tags of a recipe and of a request handed to _score_recipe alone
MaxTags == 3

\* requests in one session of inventory and receipt requests
MaxOps == 3

\* --------------------------------------------------------------- constants
None == -1          \* Python None of an Optional[int] / Optional[float]
PlanDays == 7
DefaultMaxTime == 240
ScoreScale == 12    \* scores are stored multiplied by 12

\* ----------------------------------------------------------------- helpers
Range(s) == {s[i] : i \in DOMAIN s}

RECURSIVE SeqSum(_)
SeqSum(s) == IF s = <<>> THEN 0 ELSE Head(s) + SeqSum(Tail(s))

Max(a, b) == IF a >= b THEN a ELSE b
Min(a, b) == IF a <= b THEN a ELSE b
Abs(a) == IF a >= 0 THEN a ELSE 0 - a

\* the element of a one-element set.  Only({F(x) : x \in {e}}) is F(e) with e
\* evaluated first and once, as the argument of a Python call is
Only(S) == CHOOSE x \in S : TRUE

\* Python truthiness of an Optional number: None and 0 are falsy
Truthy(x) == x # None /\ x # 0

\* ============================================================== planner ===

\* _filter_recipes: the budget test
BudgetRejects(recipe, req) ==
    \* daily_budget = budget / 7 / servings_per_day, set only "if request.budget";
    \* a budget > 0 gives a daily_budget > 0, so "if daily_budget and ..." adds nothing
    /\ Truthy(req.budget)
    /\ recipe.estimated_cost * 7 * req.servings_per_day > req.budget

\* _filter_recipes: the time test
TimeRejects(recipe, req) ==
    Truthy(req.max_time) /\ recipe.time_minutes > req.max_time

\* _filter_recipes: the diet test
DietRejects(recipe, req) ==
    req.diet_tags # {} /\ ~(req.diet_tags \subseteq recipe.diet_tags)

PassesHardFilter(recipe, req) ==
    ~TimeRejects(recipe, req) /\ ~DietRejects(recipe, req) /\ ~BudgetRejects(recipe, req)

\* _filter_recipes
FilterRecipes(rs, req) ==
    SelectSeq(rs, LAMBDA r : PassesHardFilter(r, req))

\* request.max_time or 240
TimeLimit(req) == IF Truthy(req.max_time) THEN req.max_time ELSE DefaultMaxTime

TimeOnly(rs, req) == SelectSeq(rs, LAMBDA r : r.time_minutes <= TimeLimit(req))

\* the ladder without its time-only tier
Candidates_NoTimeTier(rs, req) ==
    LET hard == FilterRecipes(rs, req)
    IN  IF Len(hard) < PlanDays THEN rs ELSE hard

\* generate_meal_plan, step 1 with its two fallbacks
Candidates(rs, req) ==
    LET hard == FilterRecipes(rs, req)
        relaxed == IF Len(hard) < PlanDays THEN TimeOnly(rs, req) ELSE hard
    IN  IF Len(relaxed) < PlanDays THEN rs ELSE relaxed

\* _score_recipe, protein term
ProteinScore(recipe, req) ==
    IF Truthy(req.protein_goal)
    THEN Max(0, 25 * ScoreScale - 15 * Abs(recipe.protein_estimate - req.protein_goal))
    ELSE Min(15 * ScoreScale, 4 * recipe.protein_estimate)

\* _score_recipe, cuisine term: 7.5 per matching tag
CuisineScore(recipe, req) ==
    IF req.cuisine_preferences # {}
    THEN Cardinality(recipe.cuisine_tags \cap req.cuisine_preferences) * 90
    ELSE 0

TimeScore(recipe) ==
    IF recipe.time_minutes <= 30 THEN 10 * ScoreScale
    ELSE IF recipe.time_minutes <= 45 THEN 7 * ScoreScale
    ELSE IF recipe.time_minutes <= 60 THEN 4 * ScoreScale
    ELSE 0

CostScore(recipe) ==
    IF recipe.estimated_cost <= 3 THEN 10 * ScoreScale
    ELSE IF 2 * recipe.estimated_cost <= 9 THEN 7 * ScoreScale
    ELSE IF recipe.estimated_cost <= 6 THEN 4 * ScoreScale
    ELSE 0

\* _score_recipe; jitter is the value random.uniform(0, 5) returned
ScoreRecipe(recipe, req, jitter) ==
    50 * ScoreScale + ProteinScore(recipe, req) + CuisineScore(recipe, req)
        + TimeScore(recipe) + CostScore(recipe) + jitter

RECURSIVE InsertByScore(_, _)
\* put pair x after every pair whose score is >= its own (stable, descending)
InsertByScore(x, sorted) ==
    IF sorted = <<>> THEN <<x>>
    ELSE IF Head(sorted)[2] >= x[2] THEN <<Head(sorted)>> \o InsertByScore(x, Tail(sorted))
         ELSE <<x>> \o sorted

RECURSIVE SortByScore(_)
\* scored.sort(key=lambda x: x[1], reverse=True): stable
SortByScore(pairs) ==
    IF pairs = <<>> THEN <<>>
    ELSE LET n == Len(pairs)
         IN  InsertByScore(pairs[n], SortByScore(SubSeq(pairs, 1, n - 1)))

\* generate_meal_plan, step 2; rng is the stream of random.uniform results
Scored(cands, req, rng) ==
    SortByScore([i \in 1..Len(cands) |->
        <<cands[i], ScoreRecipe(cands[i], req, rng[((i - 1) % Len(rng)) + 1])>>])

Ids(rs) == {rs[i].id : i \in DOMAIN rs}

\* the variety guard with "available >= remaining * 1.5"
VarietySkips_OrEqual(recipe, sel, scored) ==
    /\ sel # <<>>
    /\ recipe.cuisine_tags \cap sel[Len(sel)].cuisine_tags # {}
    /\ LET remaining == PlanDays - Len(sel)
           available == Cardinality({i \in DOMAIN scored : scored[i][1].id \notin Ids(sel)})
       IN  2 * available >= 3 * remaining

\* the variety guard of the first pass: TRUE when the candidate is skipped
VarietySkips(recipe, sel, scored) ==
    /\ sel # <<>>
    /\ recipe.cuisine_tags \cap sel[Len(sel)].cuisine_tags # {}
    /\ LET remaining == PlanDays - Len(sel)
           available == Cardinality({i \in DOMAIN scored : scored[i][1].id \notin Ids(sel)})
       IN  2 * available > 3 * remaining

RECURSIVE FirstPass(_, _, _)
\* the first loop of _select_with_variety from position i on
FirstPass(scored, i, sel) ==
    IF i > Len(scored) \/ Len(sel) >= PlanDays THEN sel
    ELSE LET recipe == scored[i][1]
         IN  IF recipe.id \in Ids(sel) THEN FirstPass(scored, i + 1, sel)
             ELSE IF VarietySkips(recipe, sel, scored) THEN FirstPass(scored, i + 1, sel)
             ELSE FirstPass(scored, i + 1, Append(sel, recipe))

RECURSIVE Backfill(_, _, _)
\* the second loop: entered only with fewer than 7 selected
Backfill(scored, i, sel) ==
    IF i > Len(scored) THEN sel
    ELSE LET recipe == scored[i][1]
         IN  IF recipe.id \notin Ids(sel)
             THEN LET sel2 == Append(sel, recipe)
                  IN  IF Len(sel2) >= PlanDays THEN sel2
                      ELSE Backfill(scored, i + 1, sel2)
             ELSE Backfill(scored, i + 1, sel)

\* the selection without its second loop
SelectedBeforeShuffle_NoBackfill(scored) == FirstPass(scored, 1, <<>>)

\* _select_with_variety before its final shuffle
SelectedBeforeShuffle(scored) ==
    LET first == FirstPass(scored, 1, <<>>)
    IN  IF Len(first) < PlanDays THEN Backfill(scored, 1, first) ELSE first

\* the orders random.shuffle may leave the five middle entries in
ShufflePerms ==
    { <<1, 2, 3, 4, 5>>, <<5, 4, 3, 2, 1>>, <<2, 3, 4, 5, 1>>, <<1, 3, 2, 4, 5>> }

\* a shuffle of selected[0:5] that keeps the last two entries
Shuffled_FromFirst(sel, perm) ==
    IF Len(sel) = PlanDays
    THEN [k \in 1..5 |-> sel[perm[k]]] \o <<sel[6], sel[7]>>
    ELSE sel

\* the final shuffle: applied only to a selection of exactly 7
Shuffled(sel, perm) ==
    IF Len(sel) = PlanDays
    THEN <<sel[1]>> \o [k \in 1..5 |-> sel[1 + perm[k]]] \o <<sel[7]>>
    ELSE sel

\* _select_with_variety
SelectWithVariety(scored, perm) == Shuffled(SelectedBeforeShuffle(scored), perm)

\* _build_days: one MealPlanDay per selected recipe
BuildDays(sel, spd) ==
    [i \in 1..Len(sel) |->
        [day |-> i,
         recipe_id |-> sel[i].id,
         copies |-> spd,
         total_time |-> sel[i].time_minutes * spd,
         total_protein |-> sel[i].protein_estimate * spd,
         total_calories |-> sel[i].calorie_estimate * spd,
         total_cost |-> sel[i].estimated_cost * spd]]

\* a PlanResponse that only caps the number of days
PlanResponseValid_NoMin(days) == Len(days) <= PlanDays

\* PlanResponse: days has min_length = max_length = 7
PlanResponseValid(days) == Len(days) = PlanDays

NoPlan == [status |-> "none", http |-> 0, engine_called |-> FALSE,
           days |-> <<>>, hard |-> <<>>, candidates |-> <<>>]

\* generate_meal_plan: the plan, or the validation error PlanResponse raises
GenerateMealPlan(rs, req, rng, perm) ==
    LET cands == Candidates(rs, req)
        sel == SelectWithVariety(Scored(cands, req, rng), perm)
        days == BuildDays(sel, req.servings_per_day)
    IN  [status |-> IF PlanResponseValid(days) THEN "ok" ELSE "error",
         http |-> 0,
         engine_called |-> TRUE,
         days |-> IF PlanResponseValid(days) THEN days ELSE <<>>,
         hard |-> FilterRecipes(rs, req),
         candidates |-> cands]

\* ============================================================ normalizer ===

LowerLetters == {"a", "b", "c", "d", "e", "f", "g", "h", "i", "j", "k", "l", "m",
                 "n", "o", "p", "q", "r", "s", "t", "u", "v", "w", "x", "y", "z"}

Digits == {"0", "1", "2", "3", "4", "5", "6", "7", "8", "9"}

\* str.lower() on the letters A-Z
LowerOf == [c \in {"A", "B", "C", "D", "E", "F", "G", "H", "I", "J", "K", "L", "M",
                   "N", "O", "P", "Q", "R", "S", "T", "U", "V", "W", "X", "Y", "Z"} |->
    CASE c = "A" -> "a" [] c = "B" -> "b" [] c = "C" -> "c" [] c = "D" -> "d"
      [] c = "E" -> "e" [] c = "F" -> "f" [] c = "G" -> "g" [] c = "H" -> "h"
      [] c = "I" -> "i" [] c = "J" -> "j" [] c = "K" -> "k" [] c = "L" -> "l"
      [] c = "M" -> "m" [] c = "N" -> "n" [] c = "O" -> "o" [] c = "P" -> "p"
      [] c = "Q" -> "q" [] c = "R" -> "r" [] c = "S" -> "s" [] c = "T" -> "t"
      [] c = "U" -> "u" [] c = "V" -> "v" [] c = "W" -> "w" [] c = "X" -> "x"
      [] c = "Y" -> "y" [] c = "Z" -> "z"]

Lower(s) == [i \in 1..Len(s) |-> IF s[i] \in DOMAIN LowerOf THEN LowerOf[s[i]] ELSE s[i]]

IsDigit(c) == c \in Digits
IsSpace(c) == c = " "
\* \w of a lowercased string
WordChars == LowerLetters \cup Digits \cup {"_"}

IsWordChar(c) == c \in WordChars

\* the character at position p, "" outside the string
At(s, p) == IF p >= 1 /\ p <= Len(s) THEN s[p] ELSE ""

\* \b between positions p-1 and p
Boundary(s, p) == IsWordChar(At(s, p - 1)) # IsWordChar(At(s, p))

RECURSIVE DigitRun(_, _)
DigitRun(s, p) == IF IsDigit(At(s, p)) THEN 1 + DigitRun(s, p + 1) ELSE 0

RECURSIVE SpaceRun(_, _)
SpaceRun(s, p) == IF IsSpace(At(s, p)) THEN 1 + SpaceRun(s, p + 1) ELSE 0

RECURSIVE WordRun(_, _)
WordRun(s, p) == IF IsWordChar(At(s, p)) THEN 1 + WordRun(s, p + 1) ELSE 0

\* the literal lit stands at position p
LitAt(s, p, lit) ==
    /\ p + Len(lit) - 1 <= Len(s)
    /\ s[p] = lit[1]
    /\ SubSeq(s, p, p + Len(lit) - 1) = lit

RECURSIVE StripLeft(_)
StripLeft(s) == IF s # <<>> /\ IsSpace(Head(s)) THEN StripLeft(Tail(s)) ELSE s

RECURSIVE StripRight(_)
StripRight(s) ==
    IF s # <<>> /\ IsSpace(s[Len(s)]) THEN StripRight(SubSeq(s, 1, Len(s) - 1)) ELSE s

\* str.strip()
Strip(s) == Only({StripRight(t) : t \in {StripLeft(s)}})

\* brand names stripped from receipt items
BRAND_NAMES == <<
    <<"g", "r", "e", "a", "t", " ", "v", "a", "l", "u", "e">>,
    <<"k", "i", "r", "k", "l", "a", "n", "d">>,
    <<"s", "i", "g", "n", "a", "t", "u", "r", "e", " ", "s", "e", "l", "e", "c", "t">>,
    <<"k", "r", "o", "g", "e", "r">>,
    <<"s", "a", "f", "e", "w", "a", "y">>,
    <<"t", "r", "a", "d", "e", "r", " ", "j", "o", "e", "s">>,
    <<"t", "r", "a", "d", "e", "r", " ", "j", "o", "e", "'", "s">>,
    <<"w", "h", "o", "l", "e", " ", "f", "o", "o", "d", "s">>,
    <<"3", "6", "5">>,
    <<"m", "a", "r", "k", "e", "t", " ", "p", "a", "n", "t", "r", "y">>,
    <<"g", "o", "o", "d", " ", "g", "a", "t", "h", "e", "r">>,
    <<"s", "i", "m", "p", "l", "y", " ", "b", "a", "l", "a", "n", "c", "e", "d">>,
    <<"o", " ", "o", "r", "g", "a", "n", "i", "c", "s">>,
    <<"o", "p", "e", "n", " ", "n", "a", "t", "u", "r", "e">>,
    <<"p", "r", "i", "v", "a", "t", "e", " ", "s", "e", "l", "e", "c", "t", "i", "o", "n">>,
    <<"s", "i", "m", "p", "l", "e", " ", "t", "r", "u", "t", "h">>,
    <<"e", "s", "s", "e", "n", "t", "i", "a", "l", " ", "e", "v", "e", "r", "y", "d", "a", "y">>,
    <<"s", "t", "o", "r", "e", " ", "b", "r", "a", "n", "d">>,
    <<"g", "e", "n", "e", "r", "i", "c">>,
    <<"h", "o", "u", "s", "e", " ", "b", "r", "a", "n", "d">>,
    <<"k", "r", "a", "f", "t">>,
    <<"h", "e", "i", "n", "z">>,
    <<"n", "e", "s", "t", "l", "e">>,
    <<"k", "e", "l", "l", "o", "g", "g", "s">>,
    <<"g", "e", "n", "e", "r", "a", "l", " ", "m", "i", "l", "l", "s">>,
    <<"c", "a", "m", "p", "b", "e", "l", "l", "s">>,
    <<"d", "e", "l", " ", "m", "o", "n", "t", "e">>,
    <<"d", "o", "l", "e">>,
    <<"c", "h", "i", "q", "u", "i", "t", "a">>,
    <<"t", "y", "s", "o", "n">>,
    <<"p", "e", "r", "d", "u", "e">>,
    <<"o", "s", "c", "a", "r", " ", "m", "a", "y", "e", "r">>,
    <<"l", "a", "n", "d", " ", "o", " ", "l", "a", "k", "e", "s">>,
    <<"s", "a", "r", "g", "e", "n", "t", "o">>,
    <<"t", "i", "l", "l", "a", "m", "o", "o", "k">>,
    <<"c", "a", "b", "o", "t">>,
    <<"h", "o", "r", "i", "z", "o", "n">>,
    <<"s", "t", "o", "n", "y", "f", "i", "e", "l", "d">>,
    <<"c", "h", "o", "b", "a", "n", "i">>,
    <<"f", "a", "g", "e">>,
    <<"o", "i", "k", "o", "s">>,
    <<"y", "o", "p", "l", "a", "i", "t">>,
    <<"d", "a", "n", "n", "o", "n">>,
    <<"g", "v">>,
    <<"k", "k">>,
    <<"s", "s">>,
    <<"m", "p">>,
    <<"g", "g">>,
    <<"s", "t">>,
    <<"e", "e">> >>

\* abbreviation -> expansion
ABBREVIATIONS == {
    <<<<"c", "h", "k", "n">>, <<"c", "h", "i", "c", "k", "e", "n">>>>,
    <<<<"b", "r", "s", "t">>, <<"b", "r", "e", "a", "s", "t">>>>,
    <<<<"b", "n", "l", "s">>, <<"b", "o", "n", "e", "l", "e", "s", "s">>>>,
    <<<<"s", "k", "n", "l", "s">>, <<"s", "k", "i", "n", "l", "e", "s", "s">>>>,
    <<<<"o", "r", "g">>, <<"o", "r", "g", "a", "n", "i", "c">>>>,
    <<<<"w", "h", "l">>, <<"w", "h", "o", "l", "e">>>>,
    <<<<"g", "r", "n", "d">>, <<"g", "r", "o", "u", "n", "d">>>>,
    <<<<"f", "r", "s", "h">>, <<"f", "r", "e", "s", "h">>>>,
    <<<<"f", "r", "z", "n">>, <<"f", "r", "o", "z", "e", "n">>>>,
    <<<<"l", "g">>, <<"l", "a", "r", "g", "e">>>>,
    <<<<"s", "m">>, <<"s", "m", "a", "l", "l">>>>,
    <<<<"m", "e", "d">>, <<"m", "e", "d", "i", "u", "m">>>>,
    <<<<"s", "l", "c", "d">>, <<"s", "l", "i", "c", "e", "d">>>>,
    <<<<"s", "h", "r", "d">>, <<"s", "h", "r", "e", "d", "d", "e", "d">>>>,
    <<<<"d", "c", "d">>, <<"d", "i", "c", "e", "d">>>>,
    <<<<"c", "t", "g">>, <<"c", "o", "t", "t", "a", "g", "e">>>>,
    <<<<"c", "h", "s">>, <<"c", "h", "e", "e", "s", "e">>>>,
    <<<<"c", "h", "s", "e">>, <<"c", "h", "e", "e", "s", "e">>>>,
    <<<<"c", "r", "m">>, <<"c", "r", "e", "a", "m">>>>,
    <<<<"b", "t", "t", "r">>, <<"b", "u", "t", "t", "e", "r">>>>,
    <<<<"y", "o", "g">>, <<"y", "o", "g", "u", "r", "t">>>>,
    <<<<"y", "g", "r", "t">>, <<"y", "o", "g", "u", "r", "t">>>>,
    <<<<"v", "e", "g">>, <<"v", "e", "g", "e", "t", "a", "b", "l", "e">>>>,
    <<<<"v", "e", "g", "s">>, <<"v", "e", "g", "e", "t", "a", "b", "l", "e", "s">>>>,
    <<<<"t", "o", "m">>, <<"t", "o", "m", "a", "t", "o">>>>,
    <<<<"t", "o", "m", "s">>, <<"t", "o", "m", "a", "t", "o", "e", "s">>>>,
    <<<<"p", "o", "t">>, <<"p", "o", "t", "a", "t", "o">>>>,
    <<<<"p", "o", "t", "s">>, <<"p", "o", "t", "a", "t", "o", "e", "s">>>>,
    <<<<"o", "n", "i">>, <<"o", "n", "i", "o", "n">>>>,
    <<<<"g", "a", "r">>, <<"g", "a", "r", "l", "i", "c">>>>,
    <<<<"p", "e", "p">>, <<"p", "e", "p", "p", "e", "r">>>>,
    <<<<"g", "r", "n">>, <<"g", "r", "e", "e", "n">>>>,
    <<<<"r", "d">>, <<"r", "e", "d">>>>,
    <<<<"w", "h", "t">>, <<"w", "h", "i", "t", "e">>>>,
    <<<<"b", "r", "n">>, <<"b", "r", "o", "w", "n">>>>,
    <<<<"b", "l", "k">>, <<"b", "l", "a", "c", "k">>>>,
    <<<<"s", "u", "g">>, <<"s", "u", "g", "a", "r">>>>,
    <<<<"f", "l", "r">>, <<"f", "l", "o", "u", "r">>>>,
    <<<<"b", "r", "d">>, <<"b", "r", "e", "a", "d">>>>,
    <<<<"r", "c", "e">>, <<"r", "i", "c", "e">>>>,
    <<<<"p", "s", "t">>, <<"p", "a", "s", "t", "a">>>>,
    <<<<"s", "c", "e">>, <<"s", "a", "u", "c", "e">>>>,
    <<<<"j", "c", "e">>, <<"j", "u", "i", "c", "e">>>>,
    <<<<"m", "l", "k">>, <<"m", "i", "l", "k">>>>,
    <<<<"e", "g">>, <<"e", "g", "g">>>>,
    <<<<"e", "g", "s">>, <<"e", "g", "g", "s">>>>,
    <<<<"b", "f">>, <<"b", "e", "e", "f">>>>,
    <<<<"p", "r", "k">>, <<"p", "o", "r", "k">>>>,
    <<<<"t", "r", "k", "y">>, <<"t", "u", "r", "k", "e", "y">>>>,
    <<<<"s", "l", "m", "n">>, <<"s", "a", "l", "m", "o", "n">>>>,
    <<<<"t", "n", "a">>, <<"t", "u", "n", "a">>>>,
    <<<<"s", "h", "r", "m", "p">>, <<"s", "h", "r", "i", "m", "p">>>>,
    <<<<"a", "p", "p", "l">>, <<"a", "p", "p", "l", "e">>>>,
    <<<<"a", "p", "p", "l", "s">>, <<"a", "p", "p", "l", "e", "s">>>>,
    <<<<"o", "r", "n", "g">>, <<"o", "r", "a", "n", "g", "e">>>>,
    <<<<"o", "r", "n", "g", "s">>, <<"o", "r", "a", "n", "g", "e", "s">>>>,
    <<<<"b", "a", "n", "a">>, <<"b", "a", "n", "a", "n", "a">>>>,
    <<<<"b", "a", "n", "a", "s">>, <<"b", "a", "n", "a", "n", "a", "s">>>>,
    <<<<"s", "t", "r", "w">>, <<"s", "t", "r", "a", "w", "b", "e", "r", "r", "y">>>>,
    <<<<"s", "t", "r", "w", "s">>, <<"s", "t", "r", "a", "w", "b", "e", "r", "r", "i", "e", "s">>>>,
    <<<<"b", "l", "u", "e", "b">>, <<"b", "l", "u", "e", "b", "e", "r", "r", "y">>>>,
    <<<<"b", "l", "u", "e", "b", "s">>, <<"b", "l", "u", "e", "b", "e", "r", "r", "i", "e", "s">>>>,
    <<<<"l", "e", "t", "t">>, <<"l", "e", "t", "t", "u", "c", "e">>>>,
    <<<<"s", "p", "i", "n">>, <<"s", "p", "i", "n", "a", "c", "h">>>>,
    <<<<"b", "r", "o", "c">>, <<"b", "r", "o", "c", "c", "o", "l", "i">>>>,
    <<<<"c", "a", "u", "l">>, <<"c", "a", "u", "l", "i", "f", "l", "o", "w", "e", "r">>>>,
    <<<<"c", "a", "r", "r">>, <<"c", "a", "r", "r", "o", "t">>>>,
    <<<<"c", "a", "r", "r", "s">>, <<"c", "a", "r", "r", "o", "t", "s">>>>,
    <<<<"c", "e", "l">>, <<"c", "e", "l", "e", "r", "y">>>>,
    <<<<"c", "u", "c", "u">>, <<"c", "u", "c", "u", "m", "b", "e", "r">>>>,
    <<<<"c", "u", "c", "u", "s">>, <<"c", "u", "c", "u", "m", "b", "e", "r", "s">>>>,
    <<<<"m", "u", "s", "r">>, <<"m", "u", "s", "h", "r", "o", "o", "m">>>>,
    <<<<"m", "u", "s", "r", "s">>, <<"m", "u", "s", "h", "r", "o", "o", "m", "s">>>>,
    <<<<"a", "v", "o", "c">>, <<"a", "v", "o", "c", "a", "d", "o">>>>,
    <<<<"a", "v", "o", "c", "s">>, <<"a", "v", "o", "c", "a", "d", "o", "s">>>> }

\* words that do not contribute to item identity
NOISE_WORDS == {
    <<"o", "r", "g", "a", "n", "i", "c">>,
    <<"n", "a", "t", "u", "r", "a", "l">>,
    <<"f", "r", "e", "s", "h">>,
    <<"f", "r", "o", "z", "e", "n">>,
    <<"c", "a", "n", "n", "e", "d">>,
    <<"d", "r", "i", "e", "d">>,
    <<"r", "a", "w">>,
    <<"c", "o", "o", "k", "e", "d">>,
    <<"r", "e", "a", "d", "y">>,
    <<"i", "n", "s", "t", "a", "n", "t">>,
    <<"q", "u", "i", "c", "k">>,
    <<"l", "o", "w">>,
    <<"r", "e", "d", "u", "c", "e", "d">>,
    <<"f", "r", "e", "e">>,
    <<"l", "i", "t", "e">>,
    <<"l", "i", "g", "h", "t">>,
    <<"f", "a", "t">>,
    <<"s", "o", "d", "i", "u", "m">>,
    <<"s", "u", "g", "a", "r">>,
    <<"b", "o", "n", "e", "l", "e", "s", "s">>,
    <<"s", "k", "i", "n", "l", "e", "s", "s">>,
    <<"b", "o", "n", "e", "-", "i", "n">>,
    <<"s", "k", "i", "n", "-", "o", "n">>,
    <<"s", "l", "i", "c", "e", "d">>,
    <<"d", "i", "c", "e", "d">>,
    <<"c", "h", "o", "p", "p", "e", "d">>,
    <<"m", "i", "n", "c", "e", "d">>,
    <<"s", "h", "r", "e", "d", "d", "e", "d">>,
    <<"g", "r", "a", "t", "e", "d">>,
    <<"w", "h", "o", "l", "e">>,
    <<"h", "a", "l", "f">>,
    <<"q", "u", "a", "r", "t", "e", "r">>,
    <<"p", "r", "e", "m", "i", "u", "m">>,
    <<"s", "e", "l", "e", "c", "t">>,
    <<"c", "h", "o", "i", "c", "e">>,
    <<"p", "r", "i", "m", "e">>,
    <<"i", "m", "p", "o", "r", "t", "e", "d">>,
    <<"d", "o", "m", "e", "s", "t", "i", "c">>,
    <<"l", "o", "c", "a", "l">>,
    <<"u", "s", "d", "a">>,
    <<"g", "r", "a", "d", "e">>,
    <<"c", "e", "r", "t", "i", "f", "i", "e", "d">> }

\* the units of SIZE_PATTERNS[0]
SizeUnits == {
    <<"o", "z">>,
    <<"l", "b">>,
    <<"l", "b", "s">>,
    <<"k", "g">>,
    <<"g">>,
    <<"g", "a", "l">>,
    <<"q", "t">>,
    <<"p", "t">>,
    <<"c", "t">>,
    <<"p", "k">>,
    <<"p", "c">>,
    <<"p", "c", "s">>,
    <<"e", "a">>,
    <<"m", "l">>,
    <<"l">>,
    <<"f", "l">> }

\* the words of SIZE_PATTERNS[1]
PackWords == {
    <<"p", "a", "c", "k">>,
    <<"c", "o", "u", "n", "t">>,
    <<"p", "i", "e", "c", "e">>,
    <<"p", "i", "e", "c", "e", "s">> }

\* the alternatives of SIZE_PATTERNS[2], x-?large and x-?small spelled out, in the order tried
SizeAdjectives == <<
    <<"x", "-", "l", "a", "r", "g", "e">>,
    <<"x", "l", "a", "r", "g", "e">>,
    <<"x", "l">>,
    <<"x", "-", "s", "m", "a", "l", "l">>,
    <<"x", "s", "m", "a", "l", "l">>,
    <<"x", "s">> >>

\* the first group of SIZE_PATTERNS[3], in order
BulkWords == <<
    <<"f", "a", "m", "i", "l", "y">>,
    <<"v", "a", "l", "u", "e">>,
    <<"b", "u", "l", "k">>,
    <<"e", "c", "o", "n", "o", "m", "y">> >>

\* the second group of SIZE_PATTERNS[3], in order
BulkSuffixes == <<
    <<"s", "i", "z", "e">>,
    <<"p", "a", "c", "k">> >>

\* the first literal of lits that stands at p as a whole word; 0 when none does
RECURSIVE WholeWordLen(_, _, _, _)
WholeWordLen(lits, n, s, p) ==
    IF n > Len(lits) THEN 0
    ELSE IF /\ LitAt(s, p, lits[n])
            /\ Boundary(s, p)
            /\ Boundary(s, p + Len(lits[n]))
         THEN Len(lits[n])
         ELSE WholeWordLen(lits, n + 1, s, p)

\* \b\d+(\.\d+)?\s*(oz|lb|...|fl)\b at p: length of the match, 0 for none
SizeUnitLen(s, p) ==
    IF ~(Boundary(s, p) /\ IsDigit(At(s, p))) THEN 0
    ELSE LET d == DigitRun(s, p)
             f == IF At(s, p + d) = "." /\ IsDigit(At(s, p + d + 1))
                  THEN 1 + DigitRun(s, p + d + 1) ELSE 0
             k == SpaceRun(s, p + d + f)
             u == WordRun(s, p + d + f + k)
         IN  IF u > 0 /\ SubSeq(s, p + d + f + k, p + d + f + k + u - 1) \in SizeUnits
             THEN d + f + k + u ELSE 0

\* \b\d+\s*(pack|count|piece|pieces)\b at p
PackLen(s, p) ==
    IF ~(Boundary(s, p) /\ IsDigit(At(s, p))) THEN 0
    ELSE LET d == DigitRun(s, p)
             k == SpaceRun(s, p + d)
             u == WordRun(s, p + d + k)
         IN  IF u > 0 /\ SubSeq(s, p + d + k, p + d + k + u - 1) \in PackWords
             THEN d + k + u ELSE 0

\* \b(family|value|bulk|economy)\s*(size|pack)?\b at p.  The greedy \s* and the
\* optional group are given up in turn until the closing \b holds.
BulkLen(s, p) ==
    LET w == IF Boundary(s, p)
             THEN IF \E n \in DOMAIN BulkWords : LitAt(s, p, BulkWords[n])
                  THEN Len(BulkWords[CHOOSE n \in DOMAIN BulkWords : LitAt(s, p, BulkWords[n])])
                  ELSE 0
             ELSE 0
        k == SpaceRun(s, p + w)
        q == p + w + k
    IN  IF w = 0 THEN 0
        ELSE IF \E n \in DOMAIN BulkSuffixes :
                    LitAt(s, q, BulkSuffixes[n]) /\ Boundary(s, q + Len(BulkSuffixes[n]))
             THEN w + k + Len(BulkSuffixes[CHOOSE n \in DOMAIN BulkSuffixes :
                    LitAt(s, q, BulkSuffixes[n]) /\ Boundary(s, q + Len(BulkSuffixes[n]))])
        ELSE IF Boundary(s, q) THEN w + k
        ELSE IF k > 0 THEN w
        ELSE 0

\* \b\d+%\b at p
PercentLen(s, p) ==
    IF ~(Boundary(s, p) /\ IsDigit(At(s, p))) THEN 0
    ELSE LET d == DigitRun(s, p)
         IN  IF At(s, p + d) = "%" /\ Boundary(s, p + d + 1) THEN d + 1 ELSE 0

\* \b\d+\b at p
NumberLen(s, p) ==
    IF ~(Boundary(s, p) /\ IsDigit(At(s, p))) THEN 0
    ELSE LET d == DigitRun(s, p)
         IN  IF Boundary(s, p + d) THEN d ELSE 0

\* length of the match of a pattern at position p, 0 when it does not match there
MatchLen(pat, s, p) ==
    CASE pat.kind = "word"    -> WholeWordLen(pat.lits, 1, s, p)
      [] pat.kind = "unit"    -> SizeUnitLen(s, p)
      [] pat.kind = "pack"    -> PackLen(s, p)
      [] pat.kind = "bulk"    -> BulkLen(s, p)
      [] pat.kind = "percent" -> PercentLen(s, p)
      [] pat.kind = "number"  -> NumberLen(s, p)
      [] pat.kind = "spaces"  -> SpaceRun(s, p)

\* the leftmost position from p on where the pattern matches, 0 when none
FirstMatch(pat, s, p) ==
    Only({ IF starts = {} THEN 0 ELSE CHOOSE q \in starts : \A r \in starts : q <= r :
           starts \in {{q \in p..Len(s) : MatchLen(pat, s, q) > 0}} })

RECURSIVE ReSub(_, _, _)
\* re.sub(pattern, " ", s): leftmost matches, left to right, from position p on
ReSub(pat, s, p) ==
    Only({ IF first = 0 THEN SubSeq(s, p, Len(s))
           ELSE SubSeq(s, p, first - 1) \o <<" ">>
                    \o Only({ReSub(pat, s, next) :
                                 next \in {first + MatchLen(pat, s, first)}}) :
           first \in {FirstMatch(pat, s, p)} })

RECURSIVE RemoveBrands(_, _, _)
\* the loop over BRAND_NAMES[lo..hi], in order: the first half of the brands,
\* then the second half on the result
RemoveBrands(s, lo, hi) ==
    IF lo > hi THEN s
    ELSE IF lo = hi THEN ReSub([kind |-> "word", lits |-> <<BRAND_NAMES[lo]>>], s, 1)
    ELSE Only({ RemoveBrands(name, (lo + hi) \div 2 + 1, hi) :
                name \in {RemoveBrands(s, lo, (lo + hi) \div 2)} })

\* the four SIZE_PATTERNS, in order
SIZE_PATTERNS == <<
    [kind |-> "unit", lits |-> <<>>],
    [kind |-> "pack", lits |-> <<>>],
    [kind |-> "word", lits |-> SizeAdjectives],
    [kind |-> "bulk", lits |-> <<>>] >>

RECURSIVE RemoveSizes(_, _)
\* the loop over SIZE_PATTERNS, from pattern n on
RemoveSizes(s, n) ==
    IF n > Len(SIZE_PATTERNS) THEN s
    ELSE Only({RemoveSizes(name, n + 1) : name \in {ReSub(SIZE_PATTERNS[n], s, 1)}})

RECURSIVE Split(_)
\* str.split(): the maximal runs of non-space characters
Split(s) ==
    IF s = <<>> THEN <<>>
    ELSE IF IsSpace(Head(s)) THEN Split(Tail(s))
    ELSE LET word_len == CHOOSE n \in 1..Len(s) :
                             /\ \A i \in 1..n : ~IsSpace(s[i])
                             /\ (n = Len(s) \/ IsSpace(s[n + 1]))
         IN  Only({ <<SubSeq(s, 1, n)>>
                        \o Only({Split(rest) : rest \in {SubSeq(s, n + 1, Len(s))}}) :
                    n \in {word_len} })

\* re.sub(r"[^a-z]", "", word)
CleanWord(word) == SelectSeq(word, LAMBDA c : c \in LowerLetters)

IsAbbreviation(word) == \E a \in ABBREVIATIONS : a[1] = word

Expansion(word) == (CHOOSE a \in ABBREVIATIONS : a[1] = word)[2]

RECURSIVE ExpandWords(_)
\* the abbreviation loop: cleaned words, expanded, empty ones dropped
ExpandWords(words) ==
    IF words = <<>> THEN <<>>
    ELSE Only({ IF IsAbbreviation(clean_word) THEN <<Expansion(clean_word)>>
                ELSE IF clean_word # <<>> THEN <<clean_word>>
                ELSE <<>> :
                clean_word \in {CleanWord(Head(words))} })
             \o Only({ExpandWords(rest) : rest \in {Tail(words)}})

RECURSIVE Join(_)
\* " ".join(words)
Join(words) ==
    IF words = <<>> THEN <<>>
    ELSE IF Len(words) = 1 THEN words[1]
    ELSE words[1] \o <<" ">> \o Only({Join(rest) : rest \in {Tail(words)}})

\* the brand loop skipped: the name keeps its brand words
WithoutBrands_Kept(name) == name

\* for brand in BRAND_NAMES: name = re.sub(rf'\b{brand}\b', ' ', name)
WithoutBrands(name) == RemoveBrands(name, 1, Len(BRAND_NAMES))

\* for pattern in SIZE_PATTERNS: name = re.sub(pattern, " ", name)
WithoutSizes(name) == RemoveSizes(name, 1)

\* re.sub(r"\b\d+%\b", " ", name)
WithoutPercent(name) == ReSub([kind |-> "percent", lits |-> <<>>], name, 1)

\* re.sub(r"\b\d+\b", " ", name)
WithoutNumbers(name) == ReSub([kind |-> "number", lits |-> <<>>], name, 1)

\* re.sub(r"\s+", " ", result)
CollapseSpaces(result) == ReSub([kind |-> "spaces", lits |-> <<>>], result, 1)

\* [w for w in expanded_words if w not in NOISE_WORDS]
WithoutNoise(expanded_words) == SelectSeq(expanded_words, LAMBDA w : w \notin NOISE_WORDS)

\* normalize_item_name(raw_name, keep_descriptors): the steps of the code,
\* the first one innermost
NormalizeItemName(raw, keep_descriptors) ==
    IF raw = <<>> THEN <<>>
    ELSE Only({ Strip(collapsed) :
           collapsed \in { CollapseSpaces(result) :
           result \in { Join(kept) :
           kept \in { IF keep_descriptors THEN expanded_words
                      ELSE WithoutNoise(expanded_words) :
           expanded_words \in { ExpandWords(words) :
           words \in { Split(no_number) :
           no_number \in { WithoutNumbers(no_percent) :
           no_percent \in { WithoutPercent(no_size) :
           no_size \in { WithoutSizes(no_brand) :
           no_brand \in { WithoutBrands(lowered) :
           lowered \in { Strip(name) :
           name \in {Lower(raw)} } } } } } } } } } } })

\* ------------------------------------------------------------- similarity
\* scores are exact fractions <<numerator, denominator>>, denominator > 0
FracLess(x, y) == x[1] * y[2] < y[1] * x[2]
FracLeq(x, y) == x[1] * y[2] <= y[1] * x[2]
FracEq(x, y) == x[1] * y[2] = y[1] * x[2]

\* name1 in name2
Contains(inner, outer) ==
    \E p \in 1..(Len(outer) - Len(inner) + 1) :
        SubSeq(outer, p, p + Len(inner) - 1) = inner

RECURSIVE CommonRun(_, _, _, _, _, _)
\* length of the common run of a[i..ahi] and b[j..bhi] that starts at i and j
CommonRun(a, i, ahi, b, j, bhi) ==
    IF i <= ahi /\ j <= bhi /\ a[i] = b[j]
    THEN 1 + CommonRun(a, i + 1, ahi, b, j + 1, bhi)
    ELSE 0

\* SequenceMatcher.find_longest_match: <<i, j, size>> of the longest block
\* common to a[alo..ahi] and b[blo..bhi]; of the longest blocks the one that
\* starts earliest in a, and of those the one that starts earliest in b
FindLongestMatch(a, alo, ahi, b, blo, bhi) ==
    LET pairs == (alo..ahi) \X (blo..bhi)
        Size(p) == CommonRun(a, p[1], ahi, b, p[2], bhi)
        best == CHOOSE p \in pairs : \A q \in pairs :
                    \/ Size(p) > Size(q)
                    \/ /\ Size(p) = Size(q)
                       /\ (p[1] < q[1] \/ (p[1] = q[1] /\ p[2] <= q[2]))
    IN  Only({<<p[1], p[2], Size(p)>> : p \in {best}})

RECURSIVE MatchedChars(_, _, _, _, _, _)
\* SequenceMatcher.get_matching_blocks: total size of the matching blocks,
\* the longest block first, then the pieces left and right of it
MatchedChars(a, alo, ahi, b, blo, bhi) ==
    IF alo > ahi \/ blo > bhi THEN 0
    ELSE Only({ IF m[3] = 0 THEN 0
                ELSE m[3] + MatchedChars(a, alo, m[1] - 1, b, blo, m[2] - 1)
                          + MatchedChars(a, m[1] + m[3], ahi, b, m[2] + m[3], bhi) :
                m \in {FindLongestMatch(a, alo, ahi, b, blo, bhi)} })

\* SequenceMatcher(None, a, b).ratio() = 2.0 * matches / (len(a) + len(b))
Ratio(a, b) == <<2 * MatchedChars(a, 1, Len(a), b, 1, Len(b)), Len(a) + Len(b)>>

\* the partial-match score without its 0.9 penalty
PartialScore_NoPenalty(shorter, longer) == <<shorter, longer>>

\* shorter / longer * 0.9
PartialScore(shorter, longer) == <<9 * shorter, 10 * longer>>

\* calculate_similarity has not run
NotScored == <<>>

\* the body of calculate_similarity
SimilarityOf(first, second) ==
    IF first = <<>> \/ second = <<>> THEN <<0, 1>>
    ELSE IF first = second THEN <<1, 1>>
    ELSE IF Contains(first, second) \/ Contains(second, first)
         THEN PartialScore(Min(Len(first), Len(second)), Max(Len(first), Len(second)))
         ELSE Ratio(first, second)

\* calculate_similarity(name1, name2)
CalculateSimilarity(first, second) ==
    Only({SimilarityOf(a, b) : a \in {first}, b \in {second}})

\* ---------------------------------------------------------------- matcher
\* threshold: float = 0.6, the value of every call in the application
DefaultThreshold == <<6, 10>>

\* find_best_match has not run
NotSearched == [searched |-> FALSE, found |-> FALSE, id |-> 0, match_score |-> <<0, 1>>]

\* return None
NoMatch == [searched |-> TRUE, found |-> FALSE, id |-> 0, match_score |-> <<0, 1>>]

\* a later score that only equals the best one also replaces it
Better_OrEqual(score, best_score) == FracLeq(best_score, score)

\* if score > best_score
Better(score, best_score) == FracLess(best_score, score)

\* one round of the loop: row i of pantry_items against the best so far;
\* best.best_match is the position of the best row, 0 for None
BestAfter(normalized_receipt, item, i, best) ==
    LET canonical_normalized == Strip(Lower(item.canonical_name))
        canonical_score == CalculateSimilarity(normalized_receipt, canonical_normalized)
        after_canonical ==
            IF item.canonical_name # <<>> /\ Better(canonical_score, best.best_score)
            THEN [best_score |-> canonical_score, best_match |-> i]
            ELSE best
        display_normalized == NormalizeItemName(item.name, FALSE)
        display_score == CalculateSimilarity(normalized_receipt, display_normalized)
    IN  IF item.name # <<>> /\ Better(display_score, after_canonical.best_score)
        THEN [best_score |-> display_score, best_match |-> i]
        ELSE after_canonical

RECURSIVE BestOver(_, _, _, _)
\* for item in pantry_items, from row i on
BestOver(normalized_receipt, items, i, best) ==
    IF i > Len(items) THEN best
    ELSE Only({ BestOver(normalized_receipt, items, i + 1, b) :
                b \in {BestAfter(normalized_receipt, items[i], i, best)} })

\* find_best_match once the receipt name is normalized
BestMatchOf(normalized_receipt, items, threshold) ==
    IF normalized_receipt = <<>> THEN NoMatch
    ELSE Only({ IF FracLeq(threshold, best.best_score) /\ best.best_match # 0
                THEN [searched |-> TRUE, found |-> TRUE,
                      id |-> items[best.best_match].id,
                      match_score |-> best.best_score]
                ELSE NoMatch :
                best \in {BestOver(normalized_receipt, items, 1,
                                   [best_score |-> <<0, 1>>, best_match |-> 0])} })

\* find_best_match(receipt_name, pantry_items, threshold)
FindBestMatch(raw, items, threshold) ==
    IF raw = <<>> \/ items = <<>> THEN NoMatch
    ELSE Only({ BestMatchOf(normalized_receipt, items, threshold) :
                normalized_receipt \in {NormalizeItemName(raw, FALSE)} })

\* ------------------------------------------------------- inputs: planner
\* recipe profiles of the seeded catalog (id left out)
RecipeKinds == <<
    [time_minutes |-> 30,  diet_tags |-> {"vegan"}, estimated_cost |-> 1,
     cuisine_tags |-> {"italian"}, protein_estimate |-> 30,
     calorie_estimate |-> 400],
    [time_minutes |-> 30,  diet_tags |-> {},        estimated_cost |-> 5,
     cuisine_tags |-> {"mexican"}, protein_estimate |-> 36,
     calorie_estimate |-> 600],
    [time_minutes |-> 90,  diet_tags |-> {"vegan"}, estimated_cost |-> 1,
     cuisine_tags |-> {"italian"}, protein_estimate |-> 10,
     calorie_estimate |-> 350],
    [time_minutes |-> 300, diet_tags |-> {},        estimated_cost |-> 5,
     cuisine_tags |-> {"mexican"}, protein_estimate |-> 18,
     calorie_estimate |-> 700] >>

WithId(kind, id) ==
    [id |-> id, time_minutes |-> kind.time_minutes, diet_tags |-> kind.diet_tags,
     estimated_cost |-> kind.estimated_cost, cuisine_tags |-> kind.cuisine_tags,
     protein_estimate |-> kind.protein_estimate,
     calorie_estimate |-> kind.calorie_estimate]

RECURSIVE KindsOf(_, _)
\* counts[k] copies of kind k, kinds in order
KindsOf(counts, k) ==
    IF k > Len(RecipeKinds) THEN <<>>
    ELSE [i \in 1..counts[k] |-> k] \o KindsOf(counts, k + 1)

\* a catalog: rows with distinct ids
CatalogOf(counts) ==
    LET ks == KindsOf(counts, 1)
    IN  [i \in 1..Len(ks) |-> WithId(RecipeKinds[ks[i]], i)]

Catalogs ==
    { CatalogOf(c) : c \in { c \in [1..Len(RecipeKinds) -> 0..MaxRecipes] :
                              c[1] + c[2] + c[3] + c[4] <= MaxRecipes } }

\* PlanRequest: budget >= 0 or None, max_time in 10..240 or None, servings 1..3
Requests ==
    [budget : {None, 0, 7},
     max_time : {60, None},
     protein_goal : {None},
     diet_tags : {{}, {"vegan"}},
     cuisine_preferences : {{}},
     servings_per_day : {1}]

NoRequest == [budget |-> None, max_time |-> None, protein_goal |-> None,
              diet_tags |-> {}, cuisine_preferences |-> {}, servings_per_day |-> 1]

\* random.uniform(0, 5), scaled
JitterValues == {0, 59}

RngStreams == [1..RngPeriod -> JitterValues]

\* --------------------------------------------------------- infer_category
\* CATEGORY_KEYWORDS, in declaration order
CATEGORY_KEYWORDS == <<
    [category |-> "produce", keywords |-> <<
        <<"a", "p", "p", "l", "e">>, <<"b", "a", "n", "a", "n", "a">>,
        <<"o", "r", "a", "n", "g", "e">>, <<"l", "e", "t", "t", "u", "c", "e">>,
        <<"s", "p", "i", "n", "a", "c", "h">>, <<"t", "o", "m", "a", "t", "o">>,
        <<"p", "o", "t", "a", "t", "o">>, <<"o", "n", "i", "o", "n">>,
        <<"c", "a", "r", "r", "o", "t">>, <<"c", "e", "l", "e", "r", "y">>,
        <<"b", "r", "o", "c", "c", "o", "l", "i">>, <<"p", "e", "p", "p", "e", "r">>,
        <<"c", "u", "c", "u", "m", "b", "e", "r">>,
        <<"a", "v", "o", "c", "a", "d", "o">>, <<"l", "e", "m", "o", "n">>,
        <<"l", "i", "m", "e">>, <<"g", "r", "a", "p", "e">>, <<"b", "e", "r", "r", "y">>,
        <<"m", "e", "l", "o", "n">>, <<"m", "a", "n", "g", "o">>, <<"p", "e", "a", "r">>,
        <<"p", "e", "a", "c", "h">>, <<"m", "u", "s", "h", "r", "o", "o", "m">>,
        <<"g", "a", "r", "l", "i", "c">>, <<"g", "i", "n", "g", "e", "r">>,
        <<"h", "e", "r", "b">>, <<"c", "i", "l", "a", "n", "t", "r", "o">>,
        <<"p", "a", "r", "s", "l", "e", "y">>, <<"b", "a", "s", "i", "l">> >>],
    [category |-> "dairy", keywords |-> <<
        <<"m", "i", "l", "k">>, <<"c", "h", "e", "e", "s", "e">>,
        <<"y", "o", "g", "u", "r", "t">>, <<"b", "u", "t", "t", "e", "r">>,
        <<"c", "r", "e", "a", "m">>, <<"e", "g", "g">>,
        <<"s", "o", "u", "r", " ", "c", "r", "e", "a", "m">>,
        <<"c", "o", "t", "t", "a", "g", "e">>,
        <<"m", "o", "z", "z", "a", "r", "e", "l", "l", "a">>,
        <<"c", "h", "e", "d", "d", "a", "r">>,
        <<"p", "a", "r", "m", "e", "s", "a", "n">>, <<"f", "e", "t", "a">>,
        <<"r", "i", "c", "o", "t", "t", "a">> >>],
    [category |-> "meat", keywords |-> <<
        <<"c", "h", "i", "c", "k", "e", "n">>, <<"b", "e", "e", "f">>,
        <<"p", "o", "r", "k">>, <<"t", "u", "r", "k", "e", "y">>, <<"l", "a", "m", "b">>,
        <<"b", "a", "c", "o", "n">>, <<"s", "a", "u", "s", "a", "g", "e">>,
        <<"h", "a", "m">>, <<"s", "t", "e", "a", "k">>, <<"g", "r", "o", "u", "n", "d">>,
        <<"b", "r", "e", "a", "s", "t">>, <<"t", "h", "i", "g", "h">>,
        <<"w", "i", "n", "g">>, <<"r", "i", "b">> >>],
    [category |-> "seafood", keywords |-> <<
        <<"s", "a", "l", "m", "o", "n">>, <<"t", "u", "n", "a">>,
        <<"s", "h", "r", "i", "m", "p">>, <<"f", "i", "s", "h">>, <<"c", "r", "a", "b">>,
        <<"l", "o", "b", "s", "t", "e", "r">>, <<"t", "i", "l", "a", "p", "i", "a">>,
        <<"c", "o", "d">>, <<"h", "a", "l", "i", "b", "u", "t">>,
        <<"s", "c", "a", "l", "l", "o", "p">>, <<"o", "y", "s", "t", "e", "r">>,
        <<"c", "l", "a", "m">>, <<"m", "u", "s", "s", "e", "l">> >>],
    [category |-> "bakery", keywords |-> <<
        <<"b", "r", "e", "a", "d">>, <<"b", "a", "g", "e", "l">>,
        <<"m", "u", "f", "f", "i", "n">>,
        <<"c", "r", "o", "i", "s", "s", "a", "n", "t">>, <<"r", "o", "l", "l">>,
        <<"b", "u", "n">>, <<"t", "o", "r", "t", "i", "l", "l", "a">>,
        <<"p", "i", "t", "a">>, <<"c", "a", "k", "e">>, <<"c", "o", "o", "k", "i", "e">>,
        <<"d", "o", "n", "u", "t">>, <<"p", "a", "s", "t", "r", "y">> >>],
    [category |-> "frozen", keywords |-> <<
        <<"f", "r", "o", "z", "e", "n">>,
        <<"i", "c", "e", " ", "c", "r", "e", "a", "m">>, <<"p", "i", "z", "z", "a">>,
        <<"f", "r", "i", "e", "s">>, <<"n", "u", "g", "g", "e", "t">>,
        <<"w", "a", "f", "f", "l", "e">> >>],
    [category |-> "pantry", keywords |-> <<
        <<"r", "i", "c", "e">>, <<"p", "a", "s", "t", "a">>,
        <<"n", "o", "o", "d", "l", "e">>, <<"b", "e", "a", "n">>,
        <<"l", "e", "n", "t", "i", "l">>, <<"f", "l", "o", "u", "r">>,
        <<"s", "u", "g", "a", "r">>, <<"o", "i", "l">>,
        <<"v", "i", "n", "e", "g", "a", "r">>, <<"s", "a", "u", "c", "e">>,
        <<"s", "o", "u", "p">>, <<"b", "r", "o", "t", "h">>,
        <<"c", "a", "n", "n", "e", "d">>, <<"c", "e", "r", "e", "a", "l">>,
        <<"o", "a", "t">>, <<"g", "r", "a", "n", "o", "l", "a">>, <<"n", "u", "t">>,
        <<"p", "e", "a", "n", "u", "t">>, <<"a", "l", "m", "o", "n", "d">> >>],
    [category |-> "beverages", keywords |-> <<
        <<"w", "a", "t", "e", "r">>, <<"j", "u", "i", "c", "e">>, <<"s", "o", "d", "a">>,
        <<"c", "o", "f", "f", "e", "e">>, <<"t", "e", "a">>, <<"b", "e", "e", "r">>,
        <<"w", "i", "n", "e">>, <<"d", "r", "i", "n", "k">>,
        <<"b", "e", "v", "e", "r", "a", "g", "e">>,
        <<"s", "p", "a", "r", "k", "l", "i", "n", "g">>,
        <<"k", "o", "m", "b", "u", "c", "h", "a">> >>],
    [category |-> "snacks", keywords |-> <<
        <<"c", "h", "i", "p">>, <<"c", "r", "a", "c", "k", "e", "r">>,
        <<"p", "r", "e", "t", "z", "e", "l">>, <<"p", "o", "p", "c", "o", "r", "n">>,
        <<"c", "a", "n", "d", "y">>, <<"c", "h", "o", "c", "o", "l", "a", "t", "e">>,
        <<"b", "a", "r">>, <<"t", "r", "a", "i", "l", " ", "m", "i", "x">>,
        <<"s", "n", "a", "c", "k">> >>],
    [category |-> "condiments", keywords |-> <<
        <<"k", "e", "t", "c", "h", "u", "p">>, <<"m", "u", "s", "t", "a", "r", "d">>,
        <<"m", "a", "y", "o">>, <<"m", "a", "y", "o", "n", "n", "a", "i", "s", "e">>,
        <<"d", "r", "e", "s", "s", "i", "n", "g">>, <<"s", "a", "l", "s", "a">>,
        <<"h", "o", "t", " ", "s", "a", "u", "c", "e">>,
        <<"s", "o", "y", " ", "s", "a", "u", "c", "e">>, <<"b", "b", "q">>,
        <<"r", "e", "l", "i", "s", "h">>, <<"p", "i", "c", "k", "l", "e">> >>],
    [category |-> "spices", keywords |-> <<
        <<"s", "a", "l", "t">>, <<"p", "e", "p", "p", "e", "r">>,
        <<"s", "p", "i", "c", "e">>, <<"s", "e", "a", "s", "o", "n", "i", "n", "g">>,
        <<"c", "u", "m", "i", "n">>, <<"p", "a", "p", "r", "i", "k", "a">>,
        <<"o", "r", "e", "g", "a", "n", "o">>, <<"t", "h", "y", "m", "e">>,
        <<"c", "i", "n", "n", "a", "m", "o", "n">>, <<"n", "u", "t", "m", "e", "g">>,
        <<"c", "u", "r", "r", "y">> >>] >>

\* sum(1 for kw in keywords if kw in name_lower)
KeywordScore(keywords, name_lower) ==
    Cardinality({i \in DOMAIN keywords : Contains(keywords[i], name_lower)})

\* a later category that only equals the best score also replaces it
ScoreBeats_OrEqual(score, best_score) == score >= best_score

\* if score > best_score
ScoreBeats(score, best_score) == score > best_score

RECURSIVE BestCategory(_, _, _)
\* the loop over CATEGORY_KEYWORDS.items(), from entry n on
BestCategory(name_lower, n, best) ==
    IF n > Len(CATEGORY_KEYWORDS) THEN best
    ELSE Only({ BestCategory(name_lower, n + 1,
                    IF ScoreBeats(score, best.best_score)
                    THEN [best_category |-> CATEGORY_KEYWORDS[n].category,
                          best_score |-> score]
                    ELSE best) :
                score \in {KeywordScore(CATEGORY_KEYWORDS[n].keywords, name_lower)} })

\* infer_category(normalized_name)
InferCategory(normalized_name) ==
    Only({ BestCategory(name_lower, 1,
                        [best_category |-> "other", best_score |-> 0]).best_category :
           name_lower \in {Lower(normalized_name)} })

\* -------------------------------------------------------- receipt preview
\* class ItemCategory: the values of the enumeration, each with its spelling
ItemCategory == <<
    [value |-> "produce", chars |-> <<"p", "r", "o", "d", "u", "c", "e">>],
    [value |-> "dairy", chars |-> <<"d", "a", "i", "r", "y">>],
    [value |-> "meat", chars |-> <<"m", "e", "a", "t">>],
    [value |-> "seafood", chars |-> <<"s", "e", "a", "f", "o", "o", "d">>],
    [value |-> "bakery", chars |-> <<"b", "a", "k", "e", "r", "y">>],
    [value |-> "frozen", chars |-> <<"f", "r", "o", "z", "e", "n">>],
    [value |-> "pantry", chars |-> <<"p", "a", "n", "t", "r", "y">>],
    [value |-> "beverages", chars |-> <<"b", "e", "v", "e", "r", "a", "g", "e", "s">>],
    [value |-> "snacks", chars |-> <<"s", "n", "a", "c", "k", "s">>],
    [value |-> "condiments", chars |-> <<"c", "o", "n", "d", "i", "m", "e", "n", "t", "s">>],
    [value |-> "spices", chars |-> <<"s", "p", "i", "c", "e", "s">>],
    [value |-> "other", chars |-> <<"o", "t", "h", "e", "r">>] >>

\* the state before create_receipt_preview is called
NoPreview ==
    [created |-> FALSE, items |-> <<>>, total_items |-> 0, total_amount |-> 0,
     matched_count |-> 0, new_count |-> 0]

\* the state before prepare_pantry_updates is called
NotPrepared == [prepared |-> FALSE, updates |-> <<>>, creates |-> <<>>]

\* _validate_category(category_str)
ValidateCategory(category_str) ==
    Only({ IF \E i \in DOMAIN ItemCategory : ItemCategory[i].chars = category_lower
           THEN ItemCategory[CHOOSE i \in DOMAIN ItemCategory :
                                 ItemCategory[i].chars = category_lower].value
           ELSE "other" :
           category_lower \in {Strip(Lower(category_str))} })

\* the pantry row find_best_match returns; the result carries its id
MatchedRow(items, found) == items[CHOOSE i \in DOMAIN items : items[i].id = found.id]

\* the row's category is ignored whenever a pantry item matched
CategoryFor_MatchFirst(item, found, items, normalized_name) ==
    IF found.found /\ MatchedRow(items, found).category # ""
    THEN MatchedRow(items, found).category
    ELSE IF item.category # <<>> THEN ValidateCategory(item.category)
    ELSE InferCategory(normalized_name)

\* if item.get("category") ... elif match and match.get("category") ... else
CategoryFor(item, found, items, normalized_name) ==
    IF item.category # <<>> THEN ValidateCategory(item.category)
    ELSE IF found.found /\ MatchedRow(items, found).category # ""
    THEN MatchedRow(items, found).category
    ELSE InferCategory(normalized_name)

\* the unit price alone
TotalPrice_UnitOnly(item) == item.unit_price

\* total_price = item["quantity"] * item["unit_price"]
TotalPrice(item) == item.quantity * item.unit_price

\* ReceiptItemPreview(...) of one row; the optional fields are None,
\* NotScored or the empty name when there is no match
PreviewOf(item, found, items, normalized_name) ==
    [raw_name |-> item.raw_name,
     normalized_name |-> normalized_name,
     quantity |-> item.quantity,
     unit |-> item.unit,
     unit_price |-> item.unit_price,
     total_price |-> TotalPrice(item),
     category |-> CategoryFor(item, found, items, normalized_name),
     pantry_match_name |-> IF found.found THEN MatchedRow(items, found).name ELSE <<>>,
     pantry_match_id |-> IF found.found THEN found.id ELSE None,
     match_score |-> IF found.found THEN found.match_score ELSE NotScored,
     will_create_new |-> ~found.found]

\* one round of the loop over parsed_items: the preview item and whether
\* the round took the branch "if match:"
PreviewRound(item, items) ==
    Only({ [preview |-> PreviewOf(item, found, items, normalized_name),
            matched |-> found.found] :
           normalized_name \in {NormalizeItemName(item.raw_name, FALSE)},
           found \in {FindBestMatch(item.raw_name, items, DefaultThreshold)} })

RECURSIVE PreviewRounds(_, _)
\* for item in parsed_items
PreviewRounds(rows, items) ==
    IF rows = <<>> THEN <<>>
    ELSE Only({ <<round>> \o PreviewRounds(Tail(rows), items) :
                round \in {PreviewRound(Head(rows), items)} })

\* create_receipt_preview(parsed_items, pantry_items, store, purchase_date);
\* batch_id, store and purchase_date pass through and are left out
CreateReceiptPreview(rows, items) ==
    Only({ [created |-> TRUE,
            items |-> [i \in DOMAIN rounds |-> rounds[i].preview],
            total_items |-> Len(rounds),
            total_amount |-> SeqSum([i \in DOMAIN rounds |-> TotalPrice(rows[i])]),
            matched_count |-> Cardinality({i \in DOMAIN rounds : rounds[i].matched}),
            new_count |-> Cardinality({i \in DOMAIN rounds : ~rounds[i].matched})] :
           rounds \in {PreviewRounds(rows, items)} })

\* no item passes the test
HasMatchId_Never(item) == FALSE

\* if item.pantry_match_id: None and 0 are both false
HasMatchId(item) == item.pantry_match_id # None /\ item.pantry_match_id # 0

\* prepare_pantry_updates(preview_items)
PreparePantryUpdates(preview_items) ==
    [prepared |-> TRUE,
     updates |-> LET matched == SelectSeq(preview_items, HasMatchId)
                 IN  [i \in DOMAIN matched |->
                         [pantry_id |-> matched[i].pantry_match_id,
                          quantity_to_add |-> matched[i].quantity]],
     creates |-> LET unmatched == SelectSeq(preview_items, LAMBDA item : ~HasMatchId(item))
                 IN  [i \in DOMAIN unmatched |->
                         [name |-> unmatched[i].raw_name,
                          canonical_name |-> unmatched[i].normalized_name,
                          quantity |-> unmatched[i].quantity,
                          unit |-> unmatched[i].unit,
                          category |-> unmatched[i].category,
                          source |-> "receipt"]]]

\* ------------------------------------------- shopping list and plan summary
\* the characters of ingredient names and categories, in code point order
CodePoints ==
    <<" ", "-", "0", "1", "2", "3", "4", "5", "6", "7", "8", "9",
      "A", "B", "C", "D", "E", "F", "G", "H", "I", "J", "K", "L", "M",
      "N", "O", "P", "Q", "R", "S", "T", "U", "V", "W", "X", "Y", "Z", "_",
      "a", "b", "c", "d", "e", "f", "g", "h", "i", "j", "k", "l", "m",
      "n", "o", "p", "q", "r", "s", "t", "u", "v", "w", "x", "y", "z">>

\* ord(c)
Ord(c) == CHOOSE n \in DOMAIN CodePoints : CodePoints[n] = c

RECURSIVE StrLess(_, _)
\* a < b on str
StrLess(a, b) ==
    IF b = <<>> THEN FALSE
    ELSE IF a = <<>> THEN TRUE
    ELSE IF Head(a) # Head(b) THEN Ord(Head(a)) < Ord(Head(b))
    ELSE StrLess(Tail(a), Tail(b))

\* Python's round(num / den, digits) of a number >= 0, in units of 10^-digits
\* (unit = 10^digits): to the nearest, a tie to the even neighbour
Round(num, den, unit) ==
    LET floor == (unit * num) \div den
        rest == (unit * num) % den
    IN  IF 2 * rest > den THEN floor + 1
        ELSE IF 2 * rest < den THEN floor
        ELSE IF floor % 2 = 0 THEN floor ELSE floor + 1

\* x + y on fractions
FracAdd(x, y) == <<x[1] * y[2] + y[1] * x[2], x[2] * y[2]>>

\* the state before the plan is assembled
NoOutputs ==
    [built |-> FALSE, days |-> <<>>, shopping_list |-> <<>>,
     summary |-> [total_recipes |-> 0, total_cost |-> 0, total_protein |-> 0,
                  total_calories |-> 0, avg_time_per_meal |-> 0,
                  avg_protein_per_meal |-> 0]]

\* a scale of 1 whatever the servings
Scale_One(recipe, spd) == <<1, 1>>

\* scale = servings_per_day / recipe.servings if recipe.servings > 0 else 1
Scale(recipe, spd) == IF recipe.servings > 0 THEN <<spd, recipe.servings>> ELSE <<1, 1>>

\* the position of key (name, unit) in aggregated, 0 when it is not there yet
KeyIndex(aggregated, name, unit) ==
    IF \E k \in DOMAIN aggregated : aggregated[k].name = name /\ aggregated[k].unit = unit
    THEN CHOOSE k \in DOMAIN aggregated :
             aggregated[k].name = name /\ aggregated[k].unit = unit
    ELSE 0

\* one round of the inner loop; category <<>> stands for None and for ""
AddIngredient(aggregated, ingredient, scale) ==
    LET name == Strip(Lower(ingredient.name))
        unit == Strip(Lower(ingredient.unit))
        quantity == <<ingredient.quantity * scale[1], scale[2]>>
        k == KeyIndex(aggregated, name, unit)
        old == IF k = 0 THEN [name |-> name, unit |-> unit,
                              quantity |-> <<0, 1>>, category |-> <<>>]
               ELSE aggregated[k]
        new == [name |-> name, unit |-> unit,
                quantity |-> FracAdd(old.quantity, quantity),
                category |-> IF ingredient.category # <<>> /\ old.category = <<>>
                             THEN ingredient.category ELSE old.category]
    IN  IF k = 0 THEN Append(aggregated, new) ELSE [aggregated EXCEPT ![k] = new]

RECURSIVE AddIngredients(_, _, _)
\* for ingredient in recipe.ingredients or []
AddIngredients(aggregated, ingredients, scale) ==
    IF ingredients = <<>> THEN aggregated
    ELSE Only({ AddIngredients(next, Tail(ingredients), scale) :
                next \in {AddIngredient(aggregated, Head(ingredients), scale)} })

RECURSIVE Aggregated(_, _, _)
\* for recipe in recipes: the dict after the loop, keys in insertion order
Aggregated(aggregated, rs, spd) ==
    IF rs = <<>> THEN aggregated
    ELSE Only({ Aggregated(next, Tail(rs), spd) :
                next \in {AddIngredients(aggregated, Head(rs).ingredients,
                                         Scale(Head(rs), spd))} })

\* the sentinel of the sort key
Sentinel == <<"z", "z", "z">>

\* round(data["quantity"], 2), in hundredths
Hundredths(quantity) == Round(quantity[1], quantity[2], 100)

\* AggregatedIngredient(name, total_quantity, unit, category)
EntryOf(data) ==
    [name |-> data.name, total_quantity |-> Hundredths(data.quantity),
     unit |-> data.unit, category |-> data.category]

\* key = (x.category or "zzz", x.name)
SortKey(x) == <<IF x.category # <<>> THEN x.category ELSE Sentinel, x.name>>

\* key1 < key2 on the tuples
KeyLess(key1, key2) ==
    \/ StrLess(key1[1], key2[1])
    \/ key1[1] = key2[1] /\ StrLess(key1[2], key2[2])

\* x put into the sorted list after every entry whose key is not greater
Inserted(sorted, x) ==
    LET before == SelectSeq(sorted, LAMBDA y : ~KeyLess(SortKey(x), SortKey(y)))
        after == SelectSeq(sorted, LAMBDA y : KeyLess(SortKey(x), SortKey(y)))
    IN  before \o <<x>> \o after

RECURSIVE Sorted(_, _)
\* result.sort(key=...): a stable sort
Sorted(sorted, result) ==
    IF result = <<>> THEN sorted
    ELSE Only({ Sorted(next, Tail(result)) : next \in {Inserted(sorted, Head(result))} })

\* _aggregate_ingredients(recipes, servings_per_day)
AggregateIngredients(rs, spd) ==
    Only({ Sorted(<<>>, result) :
           result \in { [k \in DOMAIN aggregated |-> EntryOf(aggregated[k])] :
           aggregated \in {Aggregated(<<>>, rs, spd)} } })

\* the average is scaled by the servings
AvgTime_Scaled(total_time, rs, spd) == Round(total_time * spd, Len(rs), 10)

\* round(total_time / len(recipes), 1) if recipes else 0, in tenths
AvgTime(total_time, rs, spd) == IF rs # <<>> THEN Round(total_time, Len(rs), 10) ELSE 0

\* _calculate_summary(recipes, servings_per_day): total_cost in cents,
\* total_protein and the averages in tenths, total_calories whole
CalculateSummary(rs, spd) ==
    LET total_cost == SeqSum([i \in DOMAIN rs |-> rs[i].estimated_cost * spd])
        total_protein == SeqSum([i \in DOMAIN rs |-> rs[i].protein_estimate * spd])
        total_calories == SeqSum([i \in DOMAIN rs |-> rs[i].calorie_estimate * spd])
        total_time == SeqSum([i \in DOMAIN rs |-> rs[i].time_minutes])
        num_meals == Len(rs) * spd
    IN  [total_recipes |-> Cardinality({rs[i].id : i \in DOMAIN rs}),
         total_cost |-> Round(total_cost, 1, 100),
         total_protein |-> Round(total_protein, 1, 10),
         total_calories |-> Round(total_calories, 1, 1),
         avg_time_per_meal |-> AvgTime(total_time, rs, spd),
         avg_protein_per_meal |-> IF num_meals # 0
                                  THEN Round(total_protein, num_meals, 10) ELSE 0]

\* generate_meal_plan from the selection on: days, shopping_list, summary
PlanOutputs(rs, spd) ==
    [built |-> TRUE,
     days |-> BuildDays(rs, spd),
     shopping_list |-> AggregateIngredients(rs, spd),
     summary |-> CalculateSummary(rs, spd)]

\* ------------------------------------------------------ pantry inventory
\* no call of POST /inventory/consume yet
NoConsume == [item_id |-> 0, quantity |-> 0]

\* no call of POST /receipt/confirm yet
NoConfirm == [batch_id |-> "", items |-> <<>>, update_pantry |-> FALSE]

\* a route that has not answered
NoResponse == [status |-> 0]

\* get_item(db, item_id): the rows with that primary key, none or one
GetItem(table, item_id) == SelectSeq(table, LAMBDA row : row.id = item_id)

\* the row is deleted only below zero
Depleted_Negative(new_quantity) == new_quantity < 0

\* if new_quantity <= 0
Depleted(new_quantity) == new_quantity <= 0

\* consume_item(db, item_id, quantity): the table afterwards and the returned
\* rows (<<>> is None)
ConsumeItem(table, item_id, quantity) ==
    IF GetItem(table, item_id) = <<>> THEN [table |-> table, db_item |-> <<>>]
    ELSE IF Depleted(GetItem(table, item_id)[1].quantity - quantity)
    THEN [table |-> SelectSeq(table, LAMBDA row : row.id # item_id), db_item |-> <<>>]
    ELSE [table |-> [i \in DOMAIN table |->
                        IF table[i].id = item_id
                        THEN [table[i] EXCEPT !.quantity = @ - quantity]
                        ELSE table[i]],
          db_item |-> <<[GetItem(table, item_id)[1] EXCEPT !.quantity = @ - quantity]>>]

\* consume_inventory_item(consume_data): the table afterwards and the answer;
\* item is <<>> for a null body
ConsumeInventoryItem(table, consume_data) ==
    IF GetItem(table, consume_data.item_id) = <<>>
    THEN [table |-> table, response |-> [status |-> 404, item |-> <<>>]]
    ELSE Only({ [table |-> consumed.table,
                 response |-> [status |-> 200, item |-> consumed.db_item]] :
                consumed \in {ConsumeItem(table, consume_data.item_id,
                                          consume_data.quantity)} })

\* ------------------------------------------------ receipt confirmation
\* get_all_pantry_items_for_matching(db): id, name, canonical_name and
\* category of every row
GetAllPantryItemsForMatching(table) ==
    [i \in DOMAIN table |->
        [id |-> table[i].id, name |-> table[i].name,
         canonical_name |-> table[i].canonical_name,
         category |-> table[i].category]]

\* item.category.value of a request line, as the characters the preview reads
CategoryChars(value) ==
    ItemCategory[CHOOSE i \in DOMAIN ItemCategory : ItemCategory[i].value = value].chars

\* the parsed_items list confirm_receipt builds from req.items
ParsedItemsOf(request_items) ==
    [i \in DOMAIN request_items |->
        [raw_name |-> request_items[i].raw_name,
         quantity |-> request_items[i].quantity,
         unit |-> request_items[i].unit,
         unit_price |-> request_items[i].unit_price,
         category |-> CategoryChars(request_items[i].category)]]

\* prepare_receipt_items_for_db(preview_items)
PrepareReceiptItemsForDb(preview_items) ==
    [i \in DOMAIN preview_items |->
        [raw_name |-> preview_items[i].raw_name,
         normalized_name |-> preview_items[i].normalized_name,
         quantity |-> preview_items[i].quantity,
         unit |-> preview_items[i].unit,
         unit_price |-> preview_items[i].unit_price,
         total_price |-> preview_items[i].total_price,
         category |-> preview_items[i].category,
         matched_pantry_item_id |-> preview_items[i].pantry_match_id]]

\* create_receipt_items_bulk(db, items, batch_id, store, purchase_date):
\* one row per item under the batch id; store and date are left out
CreateReceiptItemsBulk(table, items, batch_id) ==
    table \o [i \in DOMAIN items |->
                 [receipt_batch_id |-> batch_id,
                  raw_name |-> items[i].raw_name,
                  normalized_name |-> items[i].normalized_name,
                  quantity |-> items[i].quantity,
                  unit |-> items[i].unit,
                  unit_price |-> items[i].unit_price,
                  total_price |-> items[i].total_price,
                  category |-> items[i].category,
                  matched_pantry_item_id |-> items[i].matched_pantry_item_id]]

\* PantryItemBase.name_must_not_be_blank raises ValueError
NameIsBlank(v) == Strip(v) = <<>>

\* PantryItemBase.unit_must_not_be_blank
UnitOf(v) == IF Strip(v) = <<>> THEN <<"u", "n", "i", "t">> ELSE Lower(Strip(v))

\* PantryItemCreate(name=..., ..., source=ItemSource.RECEIPT): whether the
\* validation passes, and the validated fields
PantryItemCreate(create_data) ==
    [valid |-> ~NameIsBlank(create_data.name),
     name |-> Strip(create_data.name),
     canonical_name |-> create_data.canonical_name,
     quantity |-> create_data.quantity,
     unit |-> UnitOf(create_data.unit),
     category |-> create_data.category,
     source |-> create_data.source]

\* _normalize_name(name)
NormalizeName(name) == Strip(Lower(name))

\* the primary key of the next inserted pantry row
NextId(table) ==
    IF table = <<>> THEN 1
    ELSE 1 + CHOOSE id \in { table[i].id : i \in DOMAIN table } :
                 \A i \in DOMAIN table : table[i].id <= id

\* create_item(db, item_data): the table with the new row
CreateItem(table, item_data) ==
    Append(table,
           [id |-> NextId(table),
            name |-> item_data.name,
            canonical_name |-> IF item_data.canonical_name = <<>>
                               THEN NormalizeName(item_data.name)
                               ELSE item_data.canonical_name,
            quantity |-> item_data.quantity,
            unit |-> item_data.unit,
            category |-> item_data.category,
            source |-> item_data.source])

RECURSIVE ApplyUpdates(_, _, _)
\* for update in updates: the table afterwards and pantry_updated
ApplyUpdates(table, updates, pantry_updated) ==
    IF updates = <<>> THEN [table |-> table, pantry_updated |-> pantry_updated]
    ELSE IF GetItem(table, Head(updates).pantry_id) = <<>>
    THEN ApplyUpdates(table, Tail(updates), pantry_updated)
    ELSE ApplyUpdates([i \in DOMAIN table |->
                          IF table[i].id = Head(updates).pantry_id
                          THEN [table[i] EXCEPT !.quantity = @ + Head(updates).quantity_to_add]
                          ELSE table[i]],
                      Tail(updates), pantry_updated + 1)

RECURSIVE ApplyCreates(_, _, _)
\* for create_data in creates: the table afterwards, pantry_created, and
\* whether PantryItemCreate raised
ApplyCreates(table, creates, pantry_created) ==
    IF creates = <<>>
    THEN [table |-> table, pantry_created |-> pantry_created, raised |-> FALSE]
    ELSE IF ~PantryItemCreate(Head(creates)).valid
    THEN [table |-> table, pantry_created |-> pantry_created, raised |-> TRUE]
    ELSE ApplyCreates(CreateItem(table, PantryItemCreate(Head(creates))),
                      Tail(creates), pantry_created + 1)

\* the two loops are done: the table, the two counters and whether
\* PantryItemCreate raised
AfterLoops(updated, created) ==
    [table |-> created.table,
     pantry_updated |-> updated.pantry_updated,
     pantry_created |-> created.pantry_created,
     raised |-> created.raised]

\* the loop over creates, after the loop over updates
AfterUpdates(updated, creates) ==
    Only({ AfterLoops(updated, created) :
           created \in {ApplyCreates(updated.table, creates, 0)} })

\* the two loops on the lists prepare_pantry_updates returned
UpdateAndCreate(table, prepared) ==
    Only({ AfterUpdates(updated, prepared.creates) :
           updated \in {ApplyUpdates(table, prepared.updates, 0)} })

\* the "if req.update_pantry:" block of confirm_receipt
UpdatePantry(table, preview_items) ==
    Only({ UpdateAndCreate(table, prepared) :
           prepared \in {PreparePantryUpdates(preview_items)} })

\* the receipt items stored before the exception stay stored
Failed_ReceiptsKept(pantry, receipts, req) ==
    [pantry_table |-> pantry,
     receipt_table |-> receipts \o [i \in DOMAIN req.items |->
                                       [receipt_batch_id |-> req.batch_id,
                                        raw_name |-> req.items[i].raw_name]],
     response |-> [status |-> 500, batch_id |-> req.batch_id, items_created |-> 0,
                   pantry_items_updated |-> 0, pantry_items_created |-> 0,
                   total_amount |-> 0]]

\* an unhandled exception: get_db rolls the session back and the route
\* answers 500
Failed(pantry, receipts, req) ==
    [pantry_table |-> pantry, receipt_table |-> receipts,
     response |-> [status |-> 500, batch_id |-> req.batch_id, items_created |-> 0,
                   pantry_items_updated |-> 0, pantry_items_created |-> 0,
                   total_amount |-> 0]]

\* the pantry is updated whatever the request says
PantryWanted_Always(req) == TRUE

\* if request.update_pantry
PantryWanted(req) == req.update_pantry

\* confirm_receipt from "items_for_db = ..." on, given the preview it made
ConfirmWith(pantry, receipts, req, made) ==
    Only({ IF pantry_done.raised THEN Failed(pantry, receipts, req)
           ELSE [pantry_table |-> pantry_done.table,
                 receipt_table |-> CreateReceiptItemsBulk(receipts, items_for_db,
                                                          req.batch_id),
                 response |-> [status |-> 201,
                               batch_id |-> req.batch_id,
                               items_created |-> Len(items_for_db),
                               pantry_items_updated |-> pantry_done.pantry_updated,
                               pantry_items_created |-> pantry_done.pantry_created,
                               total_amount |-> made.total_amount]] :
           pantry_done \in { IF PantryWanted(req)
                             THEN UpdatePantry(pantry, made.items)
                             ELSE [table |-> pantry, pantry_updated |-> 0,
                                   pantry_created |-> 0, raised |-> FALSE] },
           items_for_db \in {PrepareReceiptItemsForDb(made.items)} })

\* confirm_receipt(req) on the two tables: the tables after the session
\* is committed or rolled back, and the answer
ConfirmReceipt(pantry, receipts, req) ==
    Only({ ConfirmWith(pantry, receipts, req, made) :
           made \in { CreateReceiptPreview(ParsedItemsOf(req.items),
                                           GetAllPantryItemsForMatching(pantry)) } })

\* ------------------------------------------- inventory and receipt routes
\* before the first request of a session
NoOp == [route |-> "", status |-> 0]

\* delete_item(db, item_id): the table afterwards and whether a row was deleted
DeleteItem(table, item_id) ==
    [table |-> SelectSeq(table, LAMBDA row : row.id # item_id),
     deleted |-> GetItem(table, item_id) # <<>>]

\* delete_inventory_item(item_id): 204, or 404 when delete_item returned False
DeleteInventoryItem(table, item_id) ==
    [table |-> DeleteItem(table, item_id).table,
     status |-> IF DeleteItem(table, item_id).deleted THEN 204 ELSE 404]

\* update_item(db, item_id, item_data) on a found row: the fields that were
\* set are written; a new name without canonical_name renews canonical_name
UpdatedRow(row, item_data) ==
    [row EXCEPT
        !.name = IF item_data.name_set THEN item_data.name ELSE @,
        !.canonical_name = IF item_data.name_set THEN NormalizeName(item_data.name) ELSE @,
        !.quantity = IF item_data.quantity_set THEN item_data.quantity ELSE @]

\* update_inventory_item(item_id, item): 404 when update_item finds no row;
\* a quantity set to null breaks NOT NULL at the flush, the session is
\* rolled back and the route answers 500
UpdateInventoryItem(table, item_id, item_data) ==
    IF GetItem(table, item_id) = <<>> THEN [table |-> table, status |-> 404]
    ELSE IF item_data.quantity_set /\ item_data.quantity = None
    THEN [table |-> table, status |-> 500]
    ELSE [table |-> [i \in DOMAIN table |->
                        IF table[i].id = item_id THEN UpdatedRow(table[i], item_data)
                        ELSE table[i]],
          status |-> 200]

\* create_inventory_item(item): item is a validated PantryItemCreate
CreateInventoryItem(table, item) ==
    [table |-> CreateItem(table, PantryItemCreate(item)), status |-> 201]

\* get_items_by_batch(db, batch_id): the positions of the rows of the batch
ItemsByBatch(receipts, batch_id) ==
    { i \in DOMAIN receipts : receipts[i].receipt_batch_id = batch_id }

\* delete_receipt_batch(db, batch_id): the table afterwards and the count
DeleteReceiptBatch(receipts, batch_id) ==
    [table |-> SelectSeq(receipts, LAMBDA item : item.receipt_batch_id # batch_id),
     count |-> Cardinality(ItemsByBatch(receipts, batch_id))]

\* the 404 is raised for every batch
BatchMissing_Always(count) == TRUE

\* if count == 0
BatchMissing(count) == count = 0

\* delete_receipt(batch_id): 404 rolls the session back
DeleteReceipt(receipts, batch_id) ==
    IF BatchMissing(DeleteReceiptBatch(receipts, batch_id).count)
    THEN [table |-> receipts, status |-> 404, count |-> 0]
    ELSE [table |-> DeleteReceiptBatch(receipts, batch_id).table, status |-> 200,
          count |-> DeleteReceiptBatch(receipts, batch_id).count]

\* no database opened, no request running
NoDatabase == [dialect |-> "", quantity |-> None, writer |-> 0]

\* the statement waits: under SQLite one connection at a time may write to
\* the database file, from its first INSERT, UPDATE or DELETE to its commit;
\* under PostgreSQL an UPDATE or DELETE waits for the uncommitted write of
\* another transaction to the same row
Blocks(db, s, statement) ==
    /\ db.writer \notin {0, s}
    /\ db.dialect = "sqlite" \/ statement # "INSERT"

\* the holder of the write lock after the statement
Locks(db, s, statement) ==
    IF db.dialect = "sqlite" \/ statement # "INSERT" THEN s ELSE db.writer

\* the request's session has sent nothing yet
Started(route, amount) ==
    [route |-> route, amount |-> amount, pc |-> "start", quantity |-> None,
     writes |-> "", new_quantity |-> None, status |-> 0]

\* get_item(db, item_id) in a session that has not written the row: the
\* SELECT returns the committed row
Loaded(session, db) ==
    [session EXCEPT !.pc = "loaded", !.quantity = db.quantity]

\* if pantry_item: pantry_item.quantity += update["quantity_to_add"]; flush:
\* UPDATE pantry_items SET quantity = <loaded quantity + amount>; when the
\* row is gone the UPDATE matches no row and flush raises StaleDataError
Added(session, db) ==
    IF session.quantity = None
    THEN [session EXCEPT !.pc = "flushed"]
    ELSE IF db.quantity = None
    THEN [session EXCEPT !.pc = "rolled_back", !.status = 500]
    ELSE [session EXCEPT !.pc = "flushed", !.writes = "update",
                         !.new_quantity = session.quantity + session.amount]

\* consume_item after get_item: DELETE when the new quantity is <= 0, else
\* UPDATE pantry_items SET quantity = <loaded quantity - amount>
Consumed(session, db) ==
    IF session.quantity - session.amount <= 0
    THEN [session EXCEPT !.pc = "flushed", !.writes = "delete"]
    ELSE IF db.quantity = None
    THEN [session EXCEPT !.pc = "rolled_back", !.status = 500]
    ELSE [session EXCEPT !.pc = "flushed", !.writes = "update",
                         !.new_quantity = session.quantity - session.amount]

\* await session.commit(): the writes of the session become the committed row
Committed(db, s, session) ==
    [db EXCEPT !.quantity = IF session.writes = "update" THEN session.new_quantity
                            ELSE IF session.writes = "delete" THEN None
                            ELSE @,
               !.writer = IF @ = s THEN 0 ELSE @]

\* await session.rollback(): the writes of the session are dropped
RolledBack(db, s) == [db EXCEPT !.writer = IF @ = s THEN 0 ELSE @]

\* no recipe handed over yet
NoRecipe ==
    [time_minutes |-> 0, estimated_cost |-> 0, cuisine_tags |-> {},
     protein_estimate |-> 0]

\* before the call
Unscored == [scored |-> FALSE, value |-> 0, jitter |-> 0]

\* ------------------------------------------------- components not in use
PlannerIdle == recipes = <<>> /\ request = NoRequest /\ plan = NoPlan
SelectIdle == scored_in = <<>> /\ selected_out = <<>>
NormalizeIdle == raw_name = <<>> /\ normalized = <<>>
SimilarityIdle == name1 = <<>> /\ name2 = <<>> /\ similarity = NotScored
MatchIdle == receipt_name = <<>> /\ pantry_items = <<>> /\ match = NotSearched
CategoryIdle == item_name = <<>> /\ category = ""
PreviewIdle == parsed_items = <<>> /\ stored_pantry = <<>> /\ preview = NoPreview /\ pantry_updates = NotPrepared
OutputIdle == selected = <<>> /\ servings_per_day = 0 /\ outputs = NoOutputs
ScoreIdle == score_recipe = NoRecipe /\ score_request = NoRequest /\ recipe_score = Unscored
SessionIdle == op_count = 0 /\ last_op = NoOp
ConcurrencyIdle == database = NoDatabase /\ db_sessions = <<>> /\ start_quantity = 0
InventoryIdle ==
    /\ pantry_table = <<>> /\ receipt_table = <<>>
    /\ consume_call = NoConsume /\ consume_response = NoResponse
    /\ confirm_call = NoConfirm /\ confirm_response = NoResponse

\* ------------------------------------------------------ actions: planner
InitPlan ==
    /\ recipes \in Catalogs
    /\ request \in Requests
    /\ plan = NoPlan
    /\ SelectIdle /\ NormalizeIdle /\ SimilarityIdle /\ MatchIdle /\ CategoryIdle
    /\ PreviewIdle /\ OutputIdle /\ InventoryIdle /\ ScoreIdle /\ SessionIdle
    /\ ConcurrencyIdle

\* a direct call of generate_meal_plan(recipes, request)
generate_meal_plan ==
    /\ plan.status = "none"
    /\ \E rng \in RngStreams, perm \in ShufflePerms :
           plan' = GenerateMealPlan(recipes, request, rng, perm)
    /\ UNCHANGED <<recipes, request, selectVars, normalizeVars, similarityVars, matchVars,
                   categoryVars, previewVars, outputVars, inventoryVars, scoreVars,
                   sessionVars, concurrencyVars>>

\* POST /plan/generate
generate_plan ==
    /\ plan.status = "none"
    /\ IF Len(recipes) = 0
       THEN plan' = [NoPlan EXCEPT !.status = "error", !.http = 503]
       ELSE \E rng \in RngStreams, perm \in ShufflePerms :
                LET p == GenerateMealPlan(recipes, request, rng, perm)
                IN  plan' = [p EXCEPT !.http = IF p.status = "ok" THEN 200 ELSE 500]
    /\ UNCHANGED <<recipes, request, selectVars, normalizeVars, similarityVars, matchVars,
                   categoryVars, previewVars, outputVars, inventoryVars, scoreVars,
                   sessionVars, concurrencyVars>>

NextPlan == generate_meal_plan \/ generate_plan

SpecPlan == InitPlan /\ [][NextPlan]_vars

\* --------------------------------------------- _select_with_variety alone
CuisineChoices == {{}, {"italian"}, {"mexican"}}

\* a score-sorted list of (recipe, score) pairs with distinct ids
ScoredLists ==
    UNION { { [i \in 1..n |-> <<[id |-> i, cuisine_tags |-> c[i]], (n - i) * ScoreScale>>]
              : c \in [1..n -> CuisineChoices] } : n \in 0..MaxScored }

NotSelected == <<[id |-> 0, cuisine_tags |-> {}]>>

InitSelect ==
    /\ scored_in \in ScoredLists
    /\ selected_out = NotSelected
    /\ PlannerIdle /\ NormalizeIdle /\ SimilarityIdle /\ MatchIdle /\ CategoryIdle
    /\ PreviewIdle /\ OutputIdle /\ InventoryIdle /\ ScoreIdle /\ SessionIdle
    /\ ConcurrencyIdle

select_with_variety ==
    /\ selected_out = NotSelected
    /\ \E perm \in ShufflePerms : selected_out' = SelectWithVariety(scored_in, perm)
    /\ UNCHANGED <<plannerVars, scored_in, normalizeVars, similarityVars, matchVars,
                   categoryVars, previewVars, outputVars, inventoryVars, scoreVars,
                   sessionVars, concurrencyVars>>

NextSelect == select_with_variety

SpecSelect == InitSelect /\ [][NextSelect]_vars

\* ------------------------------------------------- normalize_item_name alone
\* characters of the generated raw names: letters that spell abbreviations
\* ("gv", "sug", "ss"), a blank, a hyphen and a digit
NameChars == {"s", "u", "g", " ", "-", "2"}

Strings(chars, n) == UNION { [1..k -> chars] : k \in 0..n }

GreatValueMilk ==
    <<"G", "R", "E", "A", "T", " ", "V", "A", "L", "U", "E", " ", "2", "%", " ",
      "M", "I", "L", "K", " ", "1", "G", "A", "L">>

\* raw names as receipts print them
ReceiptNames == {
    GreatValueMilk,
    <<"B", "N", "L", "S", " ", "S", "K", "N", "L", "S", " ", "C", "H", "K", "N", " ",
      "B", "R", "S", "T", " ", "2", "L", "B">>,
    <<"O", "R", "G", " ", "B", "A", "B", "Y", " ", "S", "P", "I", "N", "A", "C", "H">>,
    <<"G", "V", " ", "2", "%", " ", "M", "I", "L", "K", " ", "1", "G", "A", "L">>,
    <<"g", "-", "v", " ", "m", "i", "l", "k">>,
    <<"g", "r", "e", "a", "t", " ", "o", "r", "g", "a", "n", "i", "c", " ",
      "v", "a", "l", "u", "e">>,
    <<"1", "0", "%", "f", "a", "t", " ", "m", "l", "k">> }

RawNames == ReceiptNames \cup Strings(NameChars, MaxNameLen)

InitNormalize ==
    /\ raw_name \in RawNames
    /\ normalized = <<>>
    /\ PlannerIdle /\ SelectIdle /\ SimilarityIdle /\ MatchIdle /\ CategoryIdle
    /\ PreviewIdle /\ OutputIdle /\ InventoryIdle /\ ScoreIdle /\ SessionIdle
    /\ ConcurrencyIdle

\* normalize_item_name(raw_name), then normalize_item_name of that result
normalize_item_name ==
    /\ Len(normalized) < 2
    /\ normalized' = Append(normalized,
           NormalizeItemName(IF normalized = <<>> THEN raw_name
                             ELSE normalized[Len(normalized)], FALSE))
    /\ UNCHANGED <<plannerVars, selectVars, raw_name, similarityVars, matchVars,
                   categoryVars, previewVars, outputVars, inventoryVars, scoreVars,
                   sessionVars, concurrencyVars>>

NextNormalize == normalize_item_name

SpecNormalize == InitNormalize /\ [][NextNormalize]_vars

\* ------------------------------------------------ calculate_similarity alone
SimChars == {"a", "b", "c"}
InitSimilarity ==
    /\ name1 \in Strings(SimChars, MaxSimLen)
    /\ name2 \in Strings(SimChars, MaxSimLen)
    /\ similarity = NotScored
    /\ PlannerIdle /\ SelectIdle /\ NormalizeIdle /\ MatchIdle /\ CategoryIdle
    /\ PreviewIdle /\ OutputIdle /\ InventoryIdle /\ ScoreIdle /\ SessionIdle
    /\ ConcurrencyIdle

calculate_similarity ==
    /\ similarity = NotScored
    /\ similarity' = CalculateSimilarity(name1, name2)
    /\ UNCHANGED <<plannerVars, selectVars, normalizeVars, name1, name2, matchVars,
                   categoryVars, previewVars, outputVars, inventoryVars, scoreVars,
                   sessionVars, concurrencyVars>>

NextSimilarity == calculate_similarity

SpecSimilarity == InitSimilarity /\ [][NextSimilarity]_vars

\* ----------------------------------------------------- find_best_match alone
\* pantry rows (display name, canonical_name); <<>> is a canonical_name of None
PantryKinds == <<
    [name |-> <<"W", "h", "o", "l", "e", " ", "M", "i", "l", "k">>,
     canonical_name |-> <<"m", "i", "l", "k">>],
    [name |-> <<"A", "c", "o", "r", "n", "s">>,
     canonical_name |-> <<"a", "c", "o", "r", "n", "s">>],
    [name |-> <<"S", "i", "l", "k">>,
     canonical_name |-> <<>>],
    [name |-> <<"M", "i", "l", "k">>,
     canonical_name |-> <<"D", "a", "i", "r", "y", " ">>],
    [name |-> <<"G", "V">>,
     canonical_name |-> <<"g", "v">>],
    [name |-> <<"C", "o", "l", "a">>,
     canonical_name |-> <<"c", "o", "l", "a">>] >>

\* rows with distinct ids, newest first
PantryOf(kinds) ==
    [i \in 1..Len(kinds) |->
        [id |-> Len(kinds) + 1 - i, name |-> PantryKinds[kinds[i]].name,
         canonical_name |-> PantryKinds[kinds[i]].canonical_name]]

PantryLists ==
    UNION { { PantryOf(k) : k \in [1..n -> 1..Len(PantryKinds)] } : n \in 0..MaxPantry }

\* raw names of receipt lines
ReceiptLines == {
    <<>>,
    <<"2", "%", " ", "M", "I", "L", "K", " ", "1", "G", "A", "L">>,
    <<"C", "O", "R", "N">>,
    <<"S", "O", "D", "A">>,
    <<"S", "I", "L", "K">>,
    <<"G", "V">>,
    <<"D", "A", "I", "R", "Y">>,
    <<"M", "I", "L", "K", "S">> }

InitMatch ==
    /\ receipt_name \in ReceiptLines
    /\ pantry_items \in PantryLists
    /\ match = NotSearched
    /\ PlannerIdle /\ SelectIdle /\ NormalizeIdle /\ SimilarityIdle /\ CategoryIdle
    /\ PreviewIdle /\ OutputIdle /\ InventoryIdle /\ ScoreIdle /\ SessionIdle
    /\ ConcurrencyIdle

\* match = find_best_match(item.raw_name, pantry_items)
find_best_match ==
    /\ ~match.searched
    /\ match' = FindBestMatch(receipt_name, pantry_items, DefaultThreshold)
    /\ UNCHANGED <<plannerVars, selectVars, normalizeVars, similarityVars,
                   receipt_name, pantry_items, categoryVars, previewVars, outputVars,
                   inventoryVars, scoreVars, sessionVars, concurrencyVars>>

NextMatch == find_best_match

SpecMatch == InitMatch /\ [][NextMatch]_vars

\* ------------------------------------------------------ infer_category alone
\* words of normalized names
NameWords == {
    <<"m", "i", "l", "k">>,
    <<"p", "e", "p", "p", "e", "r">>,
    <<"s", "o", "u", "r">>,
    <<"c", "r", "e", "a", "m">>,
    <<"i", "c", "e">>,
    <<"h", "o", "t">>,
    <<"s", "a", "u", "c", "e">>,
    <<"p", "e", "a", "n", "u", "t">>,
    <<"A", "p", "p", "l", "e">>,
    <<"s", "p", "o", "n", "g", "e">>,
    <<"t", "e", "a">> }

\* names of up to MaxNameWords words, one blank between words
WordedNames == { Join(ws) : ws \in Strings(NameWords, MaxNameWords) }

InitCategory ==
    /\ item_name \in WordedNames
    /\ category = ""
    /\ PlannerIdle /\ SelectIdle /\ NormalizeIdle /\ SimilarityIdle /\ MatchIdle
    /\ PreviewIdle /\ OutputIdle /\ InventoryIdle /\ ScoreIdle /\ SessionIdle
    /\ ConcurrencyIdle

\* category = infer_category(normalized)
infer_category ==
    /\ category = ""
    /\ category' = InferCategory(item_name)
    /\ UNCHANGED <<plannerVars, selectVars, normalizeVars, similarityVars, matchVars,
                   item_name, previewVars, outputVars, inventoryVars, scoreVars,
                   sessionVars, concurrencyVars>>

NextCategory == infer_category

SpecCategory == InitCategory /\ [][NextCategory]_vars

\* ------------------------------------------------ create_receipt_preview
\* rows as parse_csv_content builds them: quantity a whole number, unit_price
\* in cents, category lower-case and stripped, <<>> for None
ParsedKinds == <<
    [raw_name |-> <<"2", "%", " ", "M", "I", "L", "K", " ", "1", "G", "A", "L">>,
     quantity |-> 2, unit |-> "gal", unit_price |-> 349, category |-> <<>>],
    [raw_name |-> <<"C", "O", "R", "N">>,
     quantity |-> 1, unit |-> "unit", unit_price |-> 99, category |-> <<>>],
    [raw_name |-> <<"S", "O", "D", "A">>,
     quantity |-> 3, unit |-> "unit", unit_price |-> 150, category |-> <<>>],
    [raw_name |-> <<"M", "I", "L", "K">>,
     quantity |-> 1, unit |-> "gal", unit_price |-> 399, category |-> <<"o", "r", "g", "a", "n", "i", "c">>],
    [raw_name |-> <<"S", "O", "D", "A">>,
     quantity |-> 2, unit |-> "unit", unit_price |-> 150, category |-> <<"f", "r", "o", "z", "e", "n">>],
    [raw_name |-> <<"S", "P", "O", "N", "G", "E">>,
     quantity |-> 1, unit |-> "unit", unit_price |-> 250, category |-> <<>>] >>

ParsedLists ==
    UNION { { [i \in 1..n |-> ParsedKinds[k[i]]] : k \in [1..n -> 1..Len(ParsedKinds)] } :
            n \in 0..MaxRows }

\* the category column of the pantry rows of PantryKinds
StoredCategories == <<"dairy", "produce", "beverages", "dairy", "other", "beverages">>

\* rows with id, name, canonical_name and category
PantryRowsOf(kinds) ==
    [i \in 1..Len(kinds) |->
        [id |-> Len(kinds) + 1 - i, name |-> PantryKinds[kinds[i]].name,
         canonical_name |-> PantryKinds[kinds[i]].canonical_name,
         category |-> StoredCategories[kinds[i]]]]

StoredPantries ==
    { PantryRowsOf(<<>>), PantryRowsOf(<<1>>), PantryRowsOf(<<2, 1>>), PantryRowsOf(<<6, 2>>) }

InitPreview ==
    /\ parsed_items \in ParsedLists
    /\ stored_pantry \in StoredPantries
    /\ preview = NoPreview
    /\ pantry_updates = NotPrepared
    /\ PlannerIdle /\ SelectIdle /\ NormalizeIdle /\ SimilarityIdle /\ MatchIdle
    /\ CategoryIdle /\ OutputIdle /\ InventoryIdle /\ ScoreIdle /\ SessionIdle
    /\ ConcurrencyIdle

\* preview = create_receipt_preview(parsed_items, pantry_items, store, purchase_date)
create_receipt_preview ==
    /\ ~preview.created
    /\ preview' = CreateReceiptPreview(parsed_items, stored_pantry)
    /\ UNCHANGED <<plannerVars, selectVars, normalizeVars, similarityVars, matchVars,
                   categoryVars, parsed_items, stored_pantry, pantry_updates,
                   outputVars, inventoryVars, scoreVars, sessionVars, concurrencyVars>>

\* updates, creates = prepare_pantry_updates(preview.items)
prepare_pantry_updates ==
    /\ preview.created
    /\ ~pantry_updates.prepared
    /\ pantry_updates' = PreparePantryUpdates(preview.items)
    /\ UNCHANGED <<plannerVars, selectVars, normalizeVars, similarityVars, matchVars,
                   categoryVars, parsed_items, stored_pantry, preview, outputVars,
                   inventoryVars, scoreVars, sessionVars, concurrencyVars>>

NextPreview == create_receipt_preview \/ prepare_pantry_updates

SpecPreview == InitPreview /\ [][NextPreview]_vars

\* ------------------------------------------- shopping list and plan summary
\* recipes as _select_with_variety hands them on; ingredient quantities are
\* whole numbers, a category <<>> is a missing one
MealKinds == <<
    [servings |-> 1, time_minutes |-> 30, protein_estimate |-> 30,
     calorie_estimate |-> 400, estimated_cost |-> 5,
     ingredients |-> <<
        [name |-> <<"g", "a", "r", "l", "i", "c">>, quantity |-> 2,
         unit |-> <<"c", "l", "o", "v", "e">>, category |-> <<"p", "r", "o", "d", "u", "c", "e">>],
        [name |-> <<"s", "a", "l", "t">>, quantity |-> 1,
         unit |-> <<"g">>, category |-> <<>>] >>],
    [servings |-> 3, time_minutes |-> 45, protein_estimate |-> 12,
     calorie_estimate |-> 650, estimated_cost |-> 3,
     ingredients |-> <<
        [name |-> <<" ", "G", "a", "r", "l", "i", "c">>, quantity |-> 3,
         unit |-> <<"C", "l", "o", "v", "e", " ">>, category |-> <<>>],
        [name |-> <<"r", "i", "c", "e">>, quantity |-> 1,
         unit |-> <<"c", "u", "p">>, category |-> <<"p", "a", "n", "t", "r", "y">>] >>],
    [servings |-> 0, time_minutes |-> 20, protein_estimate |-> 8,
     calorie_estimate |-> 300, estimated_cost |-> 2,
     ingredients |-> <<
        [name |-> <<"y", "e", "a", "s", "t">>, quantity |-> 1,
         unit |-> <<"g">>, category |-> <<"z", "z", "z", "z">>],
        [name |-> <<"g", "a", "r", "l", "i", "c">>, quantity |-> 3,
         unit |-> <<"c", "l", "o", "v", "e">>, category |-> <<"s", "p", "i", "c", "e", "s">>],
        [name |-> <<"s", "a", "l", "t">>, quantity |-> 1,
         unit |-> <<"t", "s", "p">>, category |-> <<>>] >>],
    [servings |-> 2, time_minutes |-> 15, protein_estimate |-> 5,
     calorie_estimate |-> 250, estimated_cost |-> 1,
     ingredients |-> <<>>] >>

\* the recipe of kind k stored under id
MealOf(k, id) ==
    [id |-> id, servings |-> MealKinds[k].servings,
     time_minutes |-> MealKinds[k].time_minutes,
     protein_estimate |-> MealKinds[k].protein_estimate,
     calorie_estimate |-> MealKinds[k].calorie_estimate,
     estimated_cost |-> MealKinds[k].estimated_cost,
     ingredients |-> MealKinds[k].ingredients]

\* 7 recipes with distinct ids
Selections ==
    { [i \in 1..PlanDays |-> MealOf(ks[i], i)] : ks \in [1..PlanDays -> 1..Len(MealKinds)] }

InitOutputs ==
    /\ selected \in Selections
    /\ servings_per_day \in 1..MaxServings
    /\ outputs = NoOutputs
    /\ PlannerIdle /\ SelectIdle /\ NormalizeIdle /\ SimilarityIdle /\ MatchIdle
    /\ CategoryIdle /\ PreviewIdle /\ InventoryIdle /\ ScoreIdle /\ SessionIdle
    /\ ConcurrencyIdle

\* days = _build_days(...); shopping_list = _aggregate_ingredients(...);
\* summary = _calculate_summary(...)
build_outputs ==
    /\ ~outputs.built
    /\ outputs' = PlanOutputs(selected, servings_per_day)
    /\ UNCHANGED <<plannerVars, selectVars, normalizeVars, similarityVars, matchVars,
                   categoryVars, previewVars, selected, servings_per_day,
                   inventoryVars, scoreVars, sessionVars, concurrencyVars>>

NextOutputs == build_outputs

SpecOutputs == InitOutputs /\ [][NextOutputs]_vars

\* ------------------------------------------------ POST /inventory/consume
\* the pantry row with primary key id; quantities are whole numbers of the
\* smallest amount in use
PantryRow(id, quantity) ==
    [id |-> id,
     name |-> PantryKinds[((id - 1) % Len(PantryKinds)) + 1].name,
     canonical_name |-> PantryKinds[((id - 1) % Len(PantryKinds)) + 1].canonical_name,
     quantity |-> quantity,
     unit |-> <<"u", "n", "i", "t">>,
     category |-> StoredCategories[((id - 1) % Len(PantryKinds)) + 1],
     source |-> "manual"]

\* tables of at most MaxItems rows; a quantity of 0 stands for an absent row
PantryTables ==
    { SelectSeq([id \in 1..MaxItems |-> PantryRow(id, q[id])],
                LAMBDA row : row.quantity > 0) :
      q \in [1..MaxItems -> 0..MaxQuantity] }

\* PantryItemConsume: item_id > 0 and quantity > 0
ConsumeCalls ==
    { [item_id |-> id, quantity |-> q] : id \in 1..(MaxItems + 1), q \in 1..(MaxQuantity + 1) }

InitConsume ==
    /\ pantry_table \in PantryTables
    /\ receipt_table = <<>>
    /\ consume_call = NoConsume /\ consume_response = NoResponse
    /\ confirm_call = NoConfirm /\ confirm_response = NoResponse
    /\ PlannerIdle /\ SelectIdle /\ NormalizeIdle /\ SimilarityIdle /\ MatchIdle
    /\ CategoryIdle /\ PreviewIdle /\ OutputIdle /\ ScoreIdle /\ SessionIdle
    /\ ConcurrencyIdle

\* POST /inventory/consume
consume_inventory_item ==
    \E consume_data \in ConsumeCalls :
        /\ consume_call' = consume_data
        /\ pantry_table' = ConsumeInventoryItem(pantry_table, consume_data).table
        /\ consume_response' = ConsumeInventoryItem(pantry_table, consume_data).response
        /\ UNCHANGED <<plannerVars, selectVars, normalizeVars, similarityVars, matchVars,
                       categoryVars, previewVars, outputVars, receipt_table,
                       confirm_call, confirm_response, scoreVars, sessionVars,
                       concurrencyVars>>

NextConsume == consume_inventory_item

SpecConsume == InitConsume /\ [][NextConsume]_vars

\* ------------------------------------------- POST /ingest-receipt/confirm
\* lines of a ReceiptConfirmRequest (ReceiptItemCreate): raw_name of at least
\* one character, quantity > 0, unit_price >= 0 in cents, category a value of
\* ItemCategory
LineKinds == <<
    [raw_name |-> <<"2", "%", " ", "M", "I", "L", "K", " ", "1", "G", "A", "L">>,
     quantity |-> 2, unit |-> <<"g", "a", "l">>, unit_price |-> 349,
     category |-> "dairy"],
    [raw_name |-> <<"M", "I", "L", "K">>,
     quantity |-> 1, unit |-> <<"g", "a", "l">>, unit_price |-> 399,
     category |-> "other"],
    [raw_name |-> <<"S", "O", "D", "A">>,
     quantity |-> 3, unit |-> <<" ", "C", "a", "n">>, unit_price |-> 150,
     category |-> "beverages"],
    [raw_name |-> <<" ">>,
     quantity |-> 1, unit |-> <<" ">>, unit_price |-> 100,
     category |-> "other"] >>

ConfirmRequests ==
    UNION { { [batch_id |-> "batch-1", items |-> [i \in 1..n |-> LineKinds[k[i]]],
               update_pantry |-> u] :
              k \in [1..n -> 1..Len(LineKinds)], u \in BOOLEAN } :
            n \in 0..MaxRows }

\* pantry tables before the call
ConfirmTables ==
    { <<>>,
      <<PantryRow(1, 1)>>,
      <<PantryRow(1, 2), PantryRow(2, 1)>>,
      <<PantryRow(2, 3), PantryRow(6, 1)>> }

\* receipt tables before the call: empty, or one row of an earlier batch
EarlierReceipts ==
    { <<>>,
      <<[receipt_batch_id |-> "batch-0",
         raw_name |-> <<"C", "O", "L", "A">>,
         normalized_name |-> <<"c", "o", "l", "a">>,
         quantity |-> 1, unit |-> <<"u", "n", "i", "t">>,
         unit_price |-> 125, total_price |-> 125, category |-> "beverages",
         matched_pantry_item_id |-> None]>> }

InitConfirm ==
    /\ pantry_table \in ConfirmTables
    /\ receipt_table \in EarlierReceipts
    /\ consume_call = NoConsume /\ consume_response = NoResponse
    /\ confirm_call = NoConfirm /\ confirm_response = NoResponse
    /\ PlannerIdle /\ SelectIdle /\ NormalizeIdle /\ SimilarityIdle /\ MatchIdle
    /\ CategoryIdle /\ PreviewIdle /\ OutputIdle /\ ScoreIdle /\ SessionIdle
    /\ ConcurrencyIdle

\* POST /ingest-receipt/confirm
confirm_receipt ==
    /\ confirm_response = NoResponse
    /\ \E req \in ConfirmRequests :
        \E done \in {ConfirmReceipt(pantry_table, receipt_table, req)} :
            /\ confirm_call' = req
            /\ pantry_table' = done.pantry_table
            /\ receipt_table' = done.receipt_table
            /\ confirm_response' = done.response
    /\ UNCHANGED <<plannerVars, selectVars, normalizeVars, similarityVars, matchVars,
                   categoryVars, previewVars, outputVars, consume_call,
                   consume_response, scoreVars, sessionVars, concurrencyVars>>

NextConfirm == confirm_receipt

SpecConfirm == InitConfirm /\ [][NextConfirm]_vars

\* ----------------------------------------------------- _score_recipe alone
\* cuisine tags, as many as MaxTags
CuisineTags ==
    { <<"italian", "mexican", "asian", "greek", "thai", "indian">>[k] :
      k \in 1..Min(MaxTags, 6) }

\* recipes as RecipeBase admits them: time_minutes > 0, estimated_cost >= 0
\* (whole dollars), protein_estimate >= 0 (whole grams), any list of tags
ScoreRecipes ==
    [time_minutes : {30, 90}, estimated_cost : {1, 9},
     cuisine_tags : SUBSET CuisineTags, protein_estimate : {0, 18, 30, 60}]

\* requests as PlanRequest admits them: protein_goal None or >= 0
ScoreRequests ==
    [budget : {None}, max_time : {60}, protein_goal : {None, 0, 30},
     diet_tags : {{}}, cuisine_preferences : SUBSET CuisineTags,
     servings_per_day : {1}]

InitScore ==
    /\ score_recipe \in ScoreRecipes
    /\ score_request \in ScoreRequests
    /\ recipe_score = Unscored
    /\ PlannerIdle /\ SelectIdle /\ NormalizeIdle /\ SimilarityIdle /\ MatchIdle
    /\ CategoryIdle /\ PreviewIdle /\ OutputIdle /\ InventoryIdle /\ SessionIdle
    /\ ConcurrencyIdle

\* score = _score_recipe(recipe, request)
score_recipe_call ==
    /\ ~recipe_score.scored
    /\ \E jitter \in JitterValues :
           recipe_score' =
               [scored |-> TRUE,
                value |-> ScoreRecipe(score_recipe, score_request, jitter),
                jitter |-> jitter]
    /\ UNCHANGED <<plannerVars, selectVars, normalizeVars, similarityVars, matchVars,
                   categoryVars, previewVars, outputVars, inventoryVars,
                   score_recipe, score_request, sessionVars, concurrencyVars>>

NextScore == score_recipe_call

SpecScore == InitScore /\ [][NextScore]_vars

\* --------------------------------- a session of inventory and receipt requests
\* rows as parse_csv_content builds them from the uploaded file
UploadedRows == <<
    [raw_name |-> <<"M", "I", "L", "K">>,
     quantity |-> 1, unit |-> <<"g", "a", "l">>, unit_price |-> 399, category |-> <<>>],
    [raw_name |-> <<"S", "O", "D", "A">>,
     quantity |-> 3, unit |-> <<"c", "a", "n">>, unit_price |-> 150, category |-> <<>>] >>

\* the batch id create_receipt_preview gave the preview of the session
PreviewBatch == "batch-1"

\* the ReceiptConfirmRequest a client builds from the preview it was shown
ConfirmOfPreview ==
    [batch_id |-> PreviewBatch,
     items |-> [i \in DOMAIN preview.items |->
                   [raw_name |-> preview.items[i].raw_name,
                    quantity |-> preview.items[i].quantity,
                    unit |-> preview.items[i].unit,
                    unit_price |-> preview.items[i].unit_price,
                    category |-> preview.items[i].category]],
     update_pantry |-> TRUE]

\* confirmations of another receipt
OtherConfirms ==
    { [batch_id |-> "batch-2", items |-> <<LineKinds[2], LineKinds[4]>>,
       update_pantry |-> TRUE],
      [batch_id |-> "batch-2", items |-> <<LineKinds[3]>>, update_pantry |-> TRUE] }

\* bodies of POST /inventory/item (PantryItemCreate)
CreateBodies ==
    { [name |-> <<"S", "o", "d", "a">>, canonical_name |-> <<>>, quantity |-> 1,
       unit |-> <<"C", "a", "n">>, category |-> "beverages", source |-> "manual"] }

\* PUT /inventory/item/{item_id}: the id and the PantryItemUpdate body; a
\* field is unset, or set to a valid value, or (quantity) set to null
UpdateCalls ==
    { [item_id |-> 1, name_set |-> FALSE, name |-> <<>>, quantity_set |-> TRUE,
       quantity |-> 5],
      [item_id |-> 1, name_set |-> TRUE, name |-> <<"C", "o", "l", "a">>,
       quantity_set |-> FALSE, quantity |-> None],
      [item_id |-> 1, name_set |-> FALSE, name |-> <<>>, quantity_set |-> TRUE,
       quantity |-> None],
      [item_id |-> 2, name_set |-> FALSE, name |-> <<>>, quantity_set |-> TRUE,
       quantity |-> 5] }

\* path and body parameters of the other routes
SessionItemIds == {1, 2}
SessionAmounts == {1, 3}
SessionBatches == {"batch-1", "batch-2"}

\* the pantry before the session: empty, or 2 units of "Whole Milk"
SessionTables == { <<>>, <<PantryRow(1, 2)>> }

InitSession ==
    /\ pantry_table \in SessionTables
    /\ receipt_table = <<>>
    /\ consume_call = NoConsume /\ consume_response = NoResponse
    /\ confirm_call = NoConfirm /\ confirm_response = NoResponse
    /\ parsed_items = <<>> /\ stored_pantry = <<>> /\ preview = NoPreview
    /\ pantry_updates = NotPrepared
    /\ op_count = 0 /\ last_op = NoOp
    /\ PlannerIdle /\ SelectIdle /\ NormalizeIdle /\ SimilarityIdle /\ MatchIdle
    /\ CategoryIdle /\ OutputIdle /\ ScoreIdle /\ ConcurrencyIdle

\* POST /ingest-receipt: the preview is returned, nothing is stored
post_ingest_receipt ==
    /\ op_count < MaxOps
    /\ ~preview.created
    /\ parsed_items' = UploadedRows
    /\ stored_pantry' = GetAllPantryItemsForMatching(pantry_table)
    /\ preview' = CreateReceiptPreview(UploadedRows,
                                       GetAllPantryItemsForMatching(pantry_table))
    /\ op_count' = op_count + 1
    /\ last_op' = [route |-> "POST /ingest-receipt", status |-> 200]
    /\ UNCHANGED <<plannerVars, selectVars, normalizeVars, similarityVars, matchVars,
                   categoryVars, outputVars, scoreVars, inventoryVars, pantry_updates,
                   concurrencyVars>>

\* POST /ingest-receipt/confirm
post_ingest_receipt_confirm ==
    /\ op_count < MaxOps
    /\ \E req \in OtherConfirms \cup { r \in {ConfirmOfPreview} : preview.created } :
        \E done \in {ConfirmReceipt(pantry_table, receipt_table, req)} :
            /\ confirm_call' = req
            /\ pantry_table' = done.pantry_table
            /\ receipt_table' = done.receipt_table
            /\ confirm_response' = done.response
            /\ last_op' = [route |-> "POST /ingest-receipt/confirm",
                           status |-> done.response.status]
    /\ op_count' = op_count + 1
    /\ UNCHANGED <<plannerVars, selectVars, normalizeVars, similarityVars, matchVars,
                   categoryVars, outputVars, scoreVars, previewVars, consume_call,
                   consume_response, concurrencyVars>>

\* POST /inventory/item
post_inventory_item ==
    /\ op_count < MaxOps
    /\ \E item \in CreateBodies :
        /\ pantry_table' = CreateInventoryItem(pantry_table, item).table
        /\ last_op' = [route |-> "POST /inventory/item",
                       status |-> CreateInventoryItem(pantry_table, item).status]
    /\ op_count' = op_count + 1
    /\ UNCHANGED <<plannerVars, selectVars, normalizeVars, similarityVars, matchVars,
                   categoryVars, outputVars, scoreVars, previewVars, receipt_table,
                   consume_call, consume_response, confirm_call, confirm_response,
                   concurrencyVars>>

\* PUT /inventory/item/{item_id}
put_inventory_item ==
    /\ op_count < MaxOps
    /\ \E call \in UpdateCalls :
        /\ pantry_table' = UpdateInventoryItem(pantry_table, call.item_id, call).table
        /\ last_op' = [route |-> "PUT /inventory/item",
                       status |-> UpdateInventoryItem(pantry_table, call.item_id,
                                                      call).status]
    /\ op_count' = op_count + 1
    /\ UNCHANGED <<plannerVars, selectVars, normalizeVars, similarityVars, matchVars,
                   categoryVars, outputVars, scoreVars, previewVars, receipt_table,
                   consume_call, consume_response, confirm_call, confirm_response,
                   concurrencyVars>>

\* DELETE /inventory/item/{item_id}
delete_inventory_item ==
    /\ op_count < MaxOps
    /\ \E item_id \in SessionItemIds :
        /\ pantry_table' = DeleteInventoryItem(pantry_table, item_id).table
        /\ last_op' = [route |-> "DELETE /inventory/item",
                       status |-> DeleteInventoryItem(pantry_table, item_id).status]
    /\ op_count' = op_count + 1
    /\ UNCHANGED <<plannerVars, selectVars, normalizeVars, similarityVars, matchVars,
                   categoryVars, outputVars, scoreVars, previewVars, receipt_table,
                   consume_call, consume_response, confirm_call, confirm_response,
                   concurrencyVars>>

\* POST /inventory/consume
post_inventory_consume ==
    /\ op_count < MaxOps
    /\ \E item_id \in SessionItemIds, quantity \in SessionAmounts :
        \E done \in {ConsumeInventoryItem(pantry_table,
                                         [item_id |-> item_id, quantity |-> quantity])} :
            /\ consume_call' = [item_id |-> item_id, quantity |-> quantity]
            /\ pantry_table' = done.table
            /\ consume_response' = done.response
            /\ last_op' = [route |-> "POST /inventory/consume",
                           status |-> done.response.status]
    /\ op_count' = op_count + 1
    /\ UNCHANGED <<plannerVars, selectVars, normalizeVars, similarityVars, matchVars,
                   categoryVars, outputVars, scoreVars, previewVars, receipt_table,
                   confirm_call, confirm_response, concurrencyVars>>

\* DELETE /receipts/{batch_id}
delete_receipt ==
    /\ op_count < MaxOps
    /\ \E batch_id \in SessionBatches :
        /\ receipt_table' = DeleteReceipt(receipt_table, batch_id).table
        /\ last_op' = [route |-> "DELETE /receipts",
                       status |-> DeleteReceipt(receipt_table, batch_id).status,
                       batch_id |-> batch_id,
                       count |-> DeleteReceipt(receipt_table, batch_id).count]
    /\ op_count' = op_count + 1
    /\ UNCHANGED <<plannerVars, selectVars, normalizeVars, similarityVars, matchVars,
                   categoryVars, outputVars, scoreVars, previewVars, pantry_table,
                   consume_call, consume_response, confirm_call, confirm_response,
                   concurrencyVars>>

NextSession ==
    \/ post_ingest_receipt
    \/ post_ingest_receipt_confirm
    \/ post_inventory_item
    \/ put_inventory_item
    \/ delete_inventory_item
    \/ post_inventory_consume
    \/ delete_receipt

SpecSession == InitSession /\ [][NextSession]_vars

\* ------------------------- two requests on one pantry item, each in its session
\* the databases DATABASE_URL is documented for
Dialects == {"sqlite", "postgresql"}

\* two confirmations matched to the item, or a confirmation and a consume
RunningPairs ==
    { <<Started("confirm", a), Started(route, b)>> :
          a \in 1..MaxQuantity, b \in 1..MaxQuantity, route \in {"confirm", "consume"} }

InitConcurrent ==
    /\ database \in { [dialect |-> d, quantity |-> q, writer |-> 0] :
                          d \in Dialects, q \in 1..MaxQuantity }
    /\ start_quantity = database.quantity
    /\ db_sessions \in RunningPairs
    /\ PlannerIdle /\ SelectIdle /\ NormalizeIdle /\ SimilarityIdle /\ MatchIdle
    /\ CategoryIdle /\ PreviewIdle /\ OutputIdle /\ InventoryIdle /\ ScoreIdle
    /\ SessionIdle

\* confirm_receipt up to create_receipt_items_bulk: the flush sends the
\* INSERTs of the receipt items
confirm_stores_receipt ==
    /\ \E s \in DOMAIN db_sessions :
        /\ db_sessions[s].route = "confirm" /\ db_sessions[s].pc = "start"
        /\ ~Blocks(database, s, "INSERT")
        /\ database' = [database EXCEPT !.writer = Locks(database, s, "INSERT")]
        /\ db_sessions' = [db_sessions EXCEPT ![s].pc = "stored"]
    /\ UNCHANGED <<plannerVars, selectVars, normalizeVars, similarityVars, matchVars,
                   categoryVars, previewVars, outputVars, inventoryVars, scoreVars,
                   sessionVars, start_quantity>>

\* confirm_receipt: pantry_item = await pantry_crud.get_item(...)
confirm_loads_item ==
    /\ \E s \in DOMAIN db_sessions :
        /\ db_sessions[s].route = "confirm" /\ db_sessions[s].pc = "stored"
        /\ db_sessions' = [db_sessions EXCEPT ![s] = Loaded(@, database)]
        /\ UNCHANGED database
    /\ UNCHANGED <<plannerVars, selectVars, normalizeVars, similarityVars, matchVars,
                   categoryVars, previewVars, outputVars, inventoryVars, scoreVars,
                   sessionVars, start_quantity>>

\* confirm_receipt: pantry_item.quantity += ...; await db.flush()
confirm_flushes ==
    /\ \E s \in DOMAIN db_sessions :
        /\ db_sessions[s].route = "confirm" /\ db_sessions[s].pc = "loaded"
        /\ db_sessions[s].quantity # None => ~Blocks(database, s, "UPDATE")
        /\ db_sessions' = [db_sessions EXCEPT ![s] = Added(@, database)]
        /\ database' = IF Added(db_sessions[s], database).writes = "update"
                       THEN [database EXCEPT !.writer = Locks(database, s, "UPDATE")]
                       ELSE IF Added(db_sessions[s], database).pc = "rolled_back"
                       THEN RolledBack(database, s)
                       ELSE database
    /\ UNCHANGED <<plannerVars, selectVars, normalizeVars, similarityVars, matchVars,
                   categoryVars, previewVars, outputVars, inventoryVars, scoreVars,
                   sessionVars, start_quantity>>

\* consume_item: db_item = await get_item(db, item_id, user_id)
consume_loads_item ==
    /\ \E s \in DOMAIN db_sessions :
        /\ db_sessions[s].route = "consume" /\ db_sessions[s].pc = "start"
        /\ db_sessions' = [db_sessions EXCEPT ![s] = Loaded(@, database)]
        /\ UNCHANGED database
    /\ UNCHANGED <<plannerVars, selectVars, normalizeVars, similarityVars, matchVars,
                   categoryVars, previewVars, outputVars, inventoryVars, scoreVars,
                   sessionVars, start_quantity>>

\* consume_item: the delete or the assignment of new_quantity, and the flush
consume_flushes ==
    /\ \E s \in DOMAIN db_sessions :
        /\ db_sessions[s].route = "consume" /\ db_sessions[s].pc = "loaded"
        /\ ~Blocks(database, s, "UPDATE")
        /\ db_sessions' = [db_sessions EXCEPT ![s] = Consumed(@, database)]
        /\ database' = IF Consumed(db_sessions[s], database).pc = "rolled_back"
                       THEN RolledBack(database, s)
                       ELSE [database EXCEPT !.writer = Locks(database, s, "UPDATE")]
    /\ UNCHANGED <<plannerVars, selectVars, normalizeVars, similarityVars, matchVars,
                   categoryVars, previewVars, outputVars, inventoryVars, scoreVars,
                   sessionVars, start_quantity>>

\* get_db after the route returned: await session.commit()
get_db_commit ==
    /\ \E s \in DOMAIN db_sessions :
        /\ db_sessions[s].pc = "flushed"
        /\ database' = Committed(database, s, db_sessions[s])
        /\ db_sessions' = [db_sessions EXCEPT
                              ![s].pc = "committed",
                              ![s].status = IF db_sessions[s].route = "confirm" THEN 201 ELSE 200]
    /\ UNCHANGED <<plannerVars, selectVars, normalizeVars, similarityVars, matchVars,
                   categoryVars, previewVars, outputVars, inventoryVars, scoreVars,
                   sessionVars, start_quantity>>

\* SQLite gives up waiting for the write lock ("database is locked"): the
\* statement raises and get_db rolls the session back
get_db_rollback ==
    /\ \E s \in DOMAIN db_sessions :
        /\ database.dialect = "sqlite"
        /\ \/ db_sessions[s].pc = "start" /\ db_sessions[s].route = "confirm"
              /\ Blocks(database, s, "INSERT")
           \/ db_sessions[s].pc = "loaded" /\ Blocks(database, s, "UPDATE")
        /\ database' = RolledBack(database, s)
        /\ db_sessions' = [db_sessions EXCEPT ![s].pc = "rolled_back", ![s].status = 500]
    /\ UNCHANGED <<plannerVars, selectVars, normalizeVars, similarityVars, matchVars,
                   categoryVars, previewVars, outputVars, inventoryVars, scoreVars,
                   sessionVars, start_quantity>>

NextConcurrent ==
    \/ confirm_stores_receipt
    \/ confirm_loads_item
    \/ confirm_flushes
    \/ consume_loads_item
    \/ consume_flushes
    \/ get_db_commit
    \/ get_db_rollback

SpecConcurrent == InitConcurrent /\ [][NextConcurrent]_vars

\* ================================================================ claims ===

DayIds(p) == {p.days[i].recipe_id : i \in DOMAIN p.days}

RecipeById(id) == CHOOSE r \in Range(recipes) : r.id = id

\* C1: for every non-empty catalog and every valid request, generate_meal_plan
\* returns a plan with exactly 7 day-entries and never an error.
C1_SevenDaysForAnyCatalog ==
    (plan.engine_called /\ Len(recipes) >= 1)
        => (plan.status = "ok" /\ Len(plan.days) = PlanDays)

\* C2: with fewer than 7 recipes in the catalog the plan still has 7 day-entries,
\* filled by repeating recipes, and its distinct recipes are the whole catalog.
C2_SmallCatalogRepeats ==
    (plan.engine_called /\ Len(recipes) >= 1 /\ Len(recipes) < PlanDays)
        => (Len(plan.days) = PlanDays /\ Cardinality(DayIds(plan)) = Len(recipes))

\* C3: plan generation over an empty catalog ends in an error and never in a
\* plan; the route answers 503 and does not call the engine.
C3_EmptyCatalogIsError ==
    (Len(recipes) = 0 /\ plan.status # "none")
        => /\ plan.status = "error"
           /\ plan.days = <<>>
           /\ plan.http # 0 => (plan.http = 503 /\ ~plan.engine_called)

C3_Witness ==
    Len(recipes) = 0 /\ plan.status = "error" /\ plan.http = 503

\* the filter as the claim words it: a budget of 0 is a budget
PassesAsClaimed(recipe, req) ==
    /\ req.max_time # None => recipe.time_minutes <= req.max_time
    /\ req.diet_tags # {} => req.diet_tags \subseteq recipe.diet_tags
    /\ req.budget # None =>
           recipe.estimated_cost * 7 * req.servings_per_day <= req.budget

\* C4: _filter_recipes returns exactly the recipes that satisfy every constraint
\* the request sets, where any budget >= 0 (0 included) counts as set.
C4_FilterHonoursEveryBudget ==
    plan.engine_called =>
        plan.hard = SelectSeq(recipes, LAMBDA r : PassesAsClaimed(r, request))

MeetsTimeLimit(recipe, req) ==
    recipe.time_minutes <= (IF req.max_time = None THEN DefaultMaxTime ELSE req.max_time)

TimeOk(rs, req) == SelectSeq(rs, LAMBDA r : MeetsTimeLimit(r, req))

\* the ladder as the claim states it, over the recorded hard-filtered set
LadderAsClaimed ==
    plan.candidates =
        IF Len(plan.hard) >= PlanDays THEN plan.hard
        ELSE IF Len(TimeOk(recipes, request)) >= PlanDays THEN TimeOk(recipes, request)
        ELSE recipes

HardKeptWhenEnough ==
    Len(plan.hard) >= PlanDays =>
        \A id \in DayIds(plan) : RecipeById(id) \in Range(plan.hard)

\* C5 as stated: the ladder, and whenever 7 recipes pass the hard filter the plan
\* stays inside it, and whenever 7 recipes meet the time limit (240 when
\* max_time is unset) every recipe of the plan meets it.
C5_LadderAsStated ==
    plan.status = "ok" =>
        /\ LadderAsClaimed
        /\ HardKeptWhenEnough
        /\ Len(TimeOk(recipes, request)) >= PlanDays =>
               \A id \in DayIds(plan) : MeetsTimeLimit(RecipeById(id), request)

\* C5 amended: the ladder, and whenever 7 recipes pass the hard filter the plan
\* stays inside it, and whenever max_time is set and 7 recipes meet it every
\* recipe of the plan meets it.
C5_LadderAmended ==
    plan.status = "ok" =>
        /\ LadderAsClaimed
        /\ HardKeptWhenEnough
        /\ (request.max_time # None /\ Len(TimeOk(recipes, request)) >= PlanDays) =>
               \A id \in DayIds(plan) : MeetsTimeLimit(RecipeById(id), request)

\* the time-only tier decided the candidates and left a slower recipe out
C5_Witness ==
    /\ plan.status = "ok"
    /\ Len(plan.hard) < PlanDays
    /\ Len(plan.candidates) >= PlanDays
    /\ Len(plan.candidates) < Len(recipes)

\* C6: from at least 7 candidates with distinct ids _select_with_variety returns
\* exactly 7 recipes with pairwise distinct ids.
C6_SevenDistinct ==
    (Len(scored_in) >= PlanDays /\ selected_out # NotSelected)
        => /\ Len(selected_out) = PlanDays
           /\ Cardinality(Ids(selected_out)) = PlanDays

\* the guard left the first pass short and the second loop filled the week
C6_Witness ==
    /\ selected_out # NotSelected
    /\ Len(scored_in) > PlanDays
    /\ Len(FirstPass(scored_in, 1, <<>>)) < PlanDays
    /\ Len(selected_out) = PlanDays

\* C7: name normalization is idempotent: normalizing the result of
\* normalize_item_name again gives the same result, for every raw name,
\* including names whose words become a brand, size or noise word only once
\* their non-letter characters are gone ('g-v milk').
C7_NormalizeIdempotent ==
    Len(normalized) = 2 => normalized[2] = normalized[1]

Milk == <<"m", "i", "l", "k">>

\* C8: 'GREAT VALUE 2% MILK 1GAL' normalizes to exactly 'milk': the brand
\* words, the size token '1GAL', the percentage and the bare number are gone
\* and the product word is kept; no normalized name holds a digit or a '%'.
C8_GreatValueMilk ==
    Len(normalized) >= 1 =>
        /\ raw_name = GreatValueMilk => normalized[1] = Milk
        /\ \A i \in DOMAIN normalized[1] : normalized[1][i] \notin Digits \cup {"%"}

C8_Witness ==
    raw_name = GreatValueMilk /\ Len(normalized) >= 1 /\ normalized[1] = Milk

\* the best similarity of a normalized receipt name to one pantry row, over
\* its canonical name (case and outer blanks apart) and its normalized
\* display name
ItemScore(normalized_receipt, item) ==
    LET by_canonical == CalculateSimilarity(normalized_receipt,
                                            Strip(Lower(item.canonical_name)))
        by_display == CalculateSimilarity(normalized_receipt,
                                          NormalizeItemName(item.name, FALSE))
    IN  IF FracLess(by_canonical, by_display) THEN by_display ELSE by_canonical

C10_SimilarityRules ==
    similarity # NotScored =>
        /\ FracLeq(<<0, 1>>, similarity) /\ FracLeq(similarity, <<1, 1>>)
        /\ IF name1 = <<>> \/ name2 = <<>> THEN FracEq(similarity, <<0, 1>>)
           ELSE IF name1 = name2 THEN FracEq(similarity, <<1, 1>>)
           ELSE IF Contains(name1, name2) \/ Contains(name2, name1)
                THEN /\ FracEq(similarity, <<9 * Min(Len(name1), Len(name2)),
                                            10 * Max(Len(name1), Len(name2))>>)
                     /\ FracLess(similarity, <<9, 10>>)
                ELSE FracEq(similarity, Ratio(name1, name2))

\* one string properly contains the other
C10_Witness ==
    /\ similarity # NotScored
    /\ name1 # <<>> /\ name2 # <<>> /\ name1 # name2
    /\ Contains(name1, name2)
    /\ FracEq(similarity, <<9 * Len(name1), 10 * Len(name2)>>)

\* C11: calculate_similarity is symmetric: calculate_similarity(a, b) equals
\* calculate_similarity(b, a) for all strings, also in the fuzzy branch where
\* neither string contains the other.
C11_SimilaritySymmetric ==
    similarity # NotScored => FracEq(similarity, CalculateSimilarity(name2, name1))

\* the keywords of entry n of CATEGORY_KEYWORDS that occur in the lowercased name
OccurringKeywords(n, name) ==
    {kw \in Range(CATEGORY_KEYWORDS[n].keywords) : Contains(kw, Lower(name))}

\* C12: infer_category returns the category with the most keywords occurring
\* as substrings of the lowercased name; of several categories with the highest
\* count the one declared first wins; with no keyword occurring it is 'other'.
C12_MostKeywordsFirstDeclared ==
    category # "" =>
        LET count == [n \in DOMAIN CATEGORY_KEYWORDS |->
                         Cardinality(OccurringKeywords(n, item_name))]
            Top(n) == \A k \in DOMAIN CATEGORY_KEYWORDS : count[k] <= count[n]
        IN  IF \A n \in DOMAIN CATEGORY_KEYWORDS : count[n] = 0
            THEN category = "other"
            ELSE \E n \in DOMAIN CATEGORY_KEYWORDS :
                    /\ Top(n)
                    /\ \A k \in 1..(n - 1) : ~Top(k)
                    /\ category = CATEGORY_KEYWORDS[n].category

\* 'ice cream': one keyword of dairy and one of frozen, dairy is declared first
C12_Witness ==
    /\ item_name = <<"i", "c", "e", " ", "c", "r", "e", "a", "m">>
    /\ Cardinality(OccurringKeywords(2, item_name)) = 1
    /\ Cardinality(OccurringKeywords(6, item_name)) = 1
    /\ category = "dairy"

\* the ItemCategory value spelled by the characters cs, "" when there is none
CategoryNamed(cs) ==
    IF \E i \in DOMAIN ItemCategory : ItemCategory[i].chars = cs
    THEN ItemCategory[CHOOSE i \in DOMAIN ItemCategory : ItemCategory[i].chars = cs].value
    ELSE ""

\* the stored pantry row with the given id
StoredRow(id) == stored_pantry[CHOOSE k \in DOMAIN stored_pantry : stored_pantry[k].id = id]

\* C13: in create_receipt_preview a non-empty row category wins: it is kept
\* when it is a valid category and becomes 'other', without an error, when it
\* is not; otherwise the category of the matched pantry item is taken, and
\* with neither the category is inferred from the normalized name.
C13_CategoryPriority ==
    preview.created =>
        /\ Len(preview.items) = Len(parsed_items)
        /\ \A i \in DOMAIN parsed_items :
            LET row == parsed_items[i]
                item == preview.items[i]
            IN  IF row.category # <<>>
                THEN item.category = IF CategoryNamed(row.category) # ""
                                     THEN CategoryNamed(row.category) ELSE "other"
                ELSE IF ~item.will_create_new
                THEN item.category = StoredRow(item.pantry_match_id).category
                ELSE item.category = InferCategory(NormalizeItemName(row.raw_name, FALSE))

\* C13 witness: one upload with an unrecognized row category on a line that
\* matches a dairy item, and a line without category that takes the category
\* of its match
C13_Witness ==
    /\ preview.created
    /\ \E i \in DOMAIN parsed_items :
        /\ parsed_items[i].category # <<>>
        /\ CategoryNamed(parsed_items[i].category) = ""
        /\ ~preview.items[i].will_create_new
        /\ StoredRow(preview.items[i].pantry_match_id).category = "dairy"
        /\ preview.items[i].category = "other"
    /\ \E j \in DOMAIN parsed_items :
        /\ parsed_items[j].category = <<>>
        /\ ~preview.items[j].will_create_new
        /\ preview.items[j].category = "dairy"

\* C14: every preview item has total_price = quantity * unit_price and
\* will_create_new exactly when find_best_match found nothing; total_amount is
\* the sum of the total prices, total_items the number of rows, and
\* matched_count + new_count = total_items.
C14_PreviewConsistent ==
    preview.created =>
        /\ Len(preview.items) = Len(parsed_items)
        /\ \A i \in DOMAIN preview.items :
            /\ preview.items[i].quantity = parsed_items[i].quantity
            /\ preview.items[i].unit_price = parsed_items[i].unit_price
            /\ preview.items[i].total_price =
                   preview.items[i].quantity * preview.items[i].unit_price
            /\ preview.items[i].will_create_new <=>
                   ~FindBestMatch(parsed_items[i].raw_name, stored_pantry,
                                  DefaultThreshold).found
        /\ preview.total_amount =
               SeqSum([i \in DOMAIN preview.items |-> preview.items[i].total_price])
        /\ preview.total_items = Len(parsed_items)
        /\ preview.matched_count + preview.new_count = preview.total_items
        /\ preview.matched_count =
               Cardinality({i \in DOMAIN preview.items : ~preview.items[i].will_create_new})

\* C14 witness: two rows, one matched and bought twice, one new
C14_Witness ==
    /\ preview.created
    /\ preview.total_items = 2
    /\ preview.matched_count = 1
    /\ preview.new_count = 1
    /\ \E i \in DOMAIN preview.items :
        ~preview.items[i].will_create_new /\ preview.items[i].quantity = 2
    /\ preview.total_amount > 0

\* the preview items that found a pantry item, in order
MatchedItems == SelectSeq(preview.items, LAMBDA item : ~item.will_create_new)

\* the preview items that found none, in order
UnmatchedItems == SelectSeq(preview.items, LAMBDA item : item.will_create_new)

\* C15: prepare_pantry_updates splits the preview items: an update
\* {pantry_id, quantity_to_add} for every matched item, a create {name = raw
\* name, canonical_name = normalized name, quantity, unit, category} for every
\* unmatched one, so the two lists have n entries together and the update list
\* has matched_count entries.
C15_UpdatesPartition ==
    pantry_updates.prepared =>
        /\ Len(pantry_updates.updates) = Len(MatchedItems)
        /\ \A i \in DOMAIN pantry_updates.updates :
            /\ pantry_updates.updates[i].pantry_id = MatchedItems[i].pantry_match_id
            /\ pantry_updates.updates[i].quantity_to_add = MatchedItems[i].quantity
        /\ Len(pantry_updates.creates) = Len(UnmatchedItems)
        /\ \A i \in DOMAIN pantry_updates.creates :
            /\ pantry_updates.creates[i].name = UnmatchedItems[i].raw_name
            /\ pantry_updates.creates[i].canonical_name = UnmatchedItems[i].normalized_name
            /\ pantry_updates.creates[i].quantity = UnmatchedItems[i].quantity
            /\ pantry_updates.creates[i].unit = UnmatchedItems[i].unit
            /\ pantry_updates.creates[i].category = UnmatchedItems[i].category
        /\ Len(pantry_updates.updates) + Len(pantry_updates.creates) = Len(preview.items)
        /\ Len(pantry_updates.updates) = preview.matched_count

\* C15 witness: a prepared upload with one update and one create
C15_Witness ==
    /\ pantry_updates.prepared
    /\ Len(pantry_updates.updates) = 1
    /\ Len(pantry_updates.creates) = 1
    /\ pantry_updates.updates[1].quantity_to_add = 2

\* the ingredient occurrences <<recipe, position>> of the selection
Occurrences ==
    {<<i, j>> : i \in DOMAIN selected, j \in 1..3} \cap
    {o \in (DOMAIN selected) \X (1..3) : o[2] \in DOMAIN selected[o[1]].ingredients}

\* the (lowercased-trimmed name, lowercased-trimmed unit) pair of an occurrence
PairOf(o) ==
    <<Strip(Lower(selected[o[1]].ingredients[o[2]].name)),
      Strip(Lower(selected[o[1]].ingredients[o[2]].unit))>>

\* quantity * (servings_per_day / recipe.servings), scale 1 when servings <= 0
ScaledQuantity(o) ==
    IF selected[o[1]].servings <= 0
    THEN <<selected[o[1]].ingredients[o[2]].quantity, 1>>
    ELSE <<selected[o[1]].ingredients[o[2]].quantity * servings_per_day,
           selected[o[1]].servings>>

RECURSIVE QuantitySum(_)
QuantitySum(os) ==
    IF os = {} THEN <<0, 1>>
    ELSE LET o == CHOOSE o \in os : TRUE
         IN  FracAdd(ScaledQuantity(o), QuantitySum(os \ {o}))

\* the sum of the scaled quantities of the occurrences of a pair
PairTotal(pair) == QuantitySum({o \in Occurrences : PairOf(o) = pair})

\* the pairs occurring in the selection
Pairs == {PairOf(o) : o \in Occurrences}

\* the entries of the shopping list for a pair
EntriesOf(pair) ==
    {k \in DOMAIN outputs.shopping_list :
        /\ outputs.shopping_list[k].name = pair[1]
        /\ outputs.shopping_list[k].unit = pair[2]}

\* C16 as stated: one shopping-list entry per distinct (lowercased-trimmed
\* name, lowercased-trimmed unit) pair of the 7 selected recipes, its quantity
\* the sum of quantity * (servings_per_day / recipe.servings) over the
\* occurrences of the pair, with scale 1 when servings <= 0.
C16_OneEntryExactSum ==
    outputs.built =>
        /\ Len(outputs.shopping_list) = Cardinality(Pairs)
        /\ \A pair \in Pairs :
            /\ Cardinality(EntriesOf(pair)) = 1
            /\ \A k \in EntriesOf(pair) :
                LET total == PairTotal(pair)
                IN  outputs.shopping_list[k].total_quantity * total[2] = 100 * total[1]

\* C16 amended: one shopping-list entry per distinct pair, its quantity the
\* sum of the scaled quantities rounded to 2 decimal places.
C16_OneEntryRoundedSum ==
    outputs.built =>
        /\ Len(outputs.shopping_list) = Cardinality(Pairs)
        /\ \A pair \in Pairs :
            /\ Cardinality(EntriesOf(pair)) = 1
            /\ \A k \in EntriesOf(pair) :
                LET total == PairTotal(pair)
                IN  outputs.shopping_list[k].total_quantity = Round(total[1], total[2], 100)

\* C16 witness: garlic/clove at 2 and 3, both with scale 1, in one entry of
\* quantity 5
C16_Witness ==
    /\ outputs.built
    /\ \E k \in DOMAIN outputs.shopping_list :
        /\ outputs.shopping_list[k].name = <<"g", "a", "r", "l", "i", "c">>
        /\ outputs.shopping_list[k].unit = <<"c", "l", "o", "v", "e">>
        /\ outputs.shopping_list[k].total_quantity = 500
        /\ Cardinality({o \in Occurrences :
               PairOf(o) = <<outputs.shopping_list[k].name, outputs.shopping_list[k].unit>>}) = 2

\* C17: the shopping list is ascending by (category, name), and every entry
\* without a category comes after every entry with one, whatever the
\* category strings are.
C17_SortedUncategorizedLast ==
    outputs.built =>
        \A a, b \in DOMAIN outputs.shopping_list :
            a < b =>
                LET x == outputs.shopping_list[a]
                    y == outputs.shopping_list[b]
                IN  /\ x.category = <<>> => y.category = <<>>
                    /\ (x.category # <<>> /\ y.category # <<>>) =>
                           \/ StrLess(x.category, y.category)
                           \/ x.category = y.category /\ ~StrLess(y.name, x.name)
                    /\ (x.category = <<>> /\ y.category = <<>>) => ~StrLess(y.name, x.name)

\* the sum of one per-day total over the days of the plan
DaySum(field) == SeqSum([i \in DOMAIN outputs.days |-> outputs.days[i][field]])

\* the sum of the time_minutes of the selected recipes
TimeSum == SeqSum([i \in DOMAIN selected |-> selected[i].time_minutes])

\* the totals of the summary against the days: cost in cents, protein in tenths
TotalsAgree ==
    /\ outputs.summary.total_cost = 100 * DaySum("total_cost")
    /\ outputs.summary.total_protein = 10 * DaySum("total_protein")
    /\ outputs.summary.total_calories = DaySum("total_calories")
    /\ outputs.summary.total_recipes =
           Cardinality({outputs.days[i].recipe_id : i \in DOMAIN outputs.days})

\* C18 as stated: the totals of the summary are the sums of the 7 days'
\* totals, total_recipes the number of distinct recipe ids in the days,
\* avg_time_per_meal the sum of the 7 time_minutes divided by 7 and
\* avg_protein_per_meal total_protein / (7 * servings_per_day).
C18_SummaryExact ==
    outputs.built =>
        /\ TotalsAgree
        /\ outputs.summary.avg_time_per_meal * PlanDays = 10 * TimeSum
        /\ outputs.summary.avg_protein_per_meal * PlanDays * servings_per_day =
               10 * DaySum("total_protein")

\* C18 amended: as stated, with both averages rounded to 1 decimal place.
C18_SummaryRounded ==
    outputs.built =>
        /\ TotalsAgree
        /\ outputs.summary.avg_time_per_meal = Round(TimeSum, PlanDays, 10)
        /\ outputs.summary.avg_protein_per_meal =
               Round(DaySum("total_protein"), PlanDays * servings_per_day, 10)

\* C18 witness: 2 servings a day and a time sum that 7 does not divide
C18_Witness ==
    /\ outputs.built
    /\ servings_per_day = 2
    /\ Len(outputs.days) = PlanDays
    /\ TimeSum % PlanDays # 0
    /\ outputs.summary.total_recipes = PlanDays
    /\ outputs.summary.avg_time_per_meal = Round(TimeSum, PlanDays, 10)

\* the rows of a table as a set
RowsOf(table) == { table[i] : i \in DOMAIN table }

\* C19: consuming amount q > 0 of a pantry item with quantity Q leaves the
\* item with quantity Q - q and returns it when Q - q > 0, deletes it and
\* returns null when Q - q <= 0, and answers 404 when the id does not
\* exist; every other pantry item is unchanged in all three cases.
C19_Consume ==
    [][LET id == consume_call'.item_id
           q == consume_call'.quantity
           held == { row \in RowsOf(pantry_table) : row.id = id }
           others == { row \in RowsOf(pantry_table) : row.id # id }
       IN  /\ { row \in RowsOf(pantry_table') : row.id # id } = others
           /\ held = {} =>
                 /\ consume_response'.status = 404
                 /\ pantry_table' = pantry_table
           /\ \A item \in held :
                 IF item.quantity - q > 0
                 THEN /\ { row \in RowsOf(pantry_table') : row.id = id }
                             = {[item EXCEPT !.quantity = item.quantity - q]}
                      /\ consume_response'
                             = [status |-> 200,
                                item |-> <<[item EXCEPT !.quantity = item.quantity - q]>>]
                 ELSE /\ { row \in RowsOf(pantry_table') : row.id = id } = {}
                      /\ consume_response' = [status |-> 200, item |-> <<>>]
      ]_vars

\* an item was consumed completely and deleted while another row remains
C19_Witness ==
    /\ consume_response = [status |-> 200, item |-> <<>>]
    /\ pantry_table # <<>>
    /\ \A i \in DOMAIN pantry_table : pantry_table[i].id # consume_call.item_id

\* the pantry item a request line is matched to, against the table before
LineMatch(line) ==
    FindBestMatch(line.raw_name, GetAllPantryItemsForMatching(pantry_table),
                  DefaultThreshold)

\* the lines of the request matched to the pantry item with this id
LinesMatchedTo(request_items, id) ==
    { i \in DOMAIN request_items :
        LineMatch(request_items[i]).found /\ LineMatch(request_items[i]).id = id }

\* the lines of the request matched to no pantry item
LinesUnmatched(request_items) ==
    { i \in DOMAIN request_items : ~LineMatch(request_items[i]).found }

RECURSIVE QuantityOf(_, _)
\* the sum of the quantities of a set of lines
QuantityOf(request_items, lines) ==
    IF lines = {} THEN 0
    ELSE LET i == CHOOSE l \in lines : TRUE
         IN  request_items[i].quantity + QuantityOf(request_items, lines \ {i})

\* what a step of confirm_receipt with update_pantry = true has to establish
ConfirmStoresEveryLine ==
    LET items == confirm_call'.items
        n == Len(items)
        old_ids == { pantry_table[i].id : i \in DOMAIN pantry_table }
    IN  /\ Len(receipt_table') = Len(receipt_table) + n
        /\ SubSeq(receipt_table', 1, Len(receipt_table)) = receipt_table
        /\ \A i \in (Len(receipt_table) + 1)..Len(receipt_table') :
              receipt_table'[i].receipt_batch_id = confirm_call'.batch_id
        /\ \A row \in RowsOf(pantry_table) :
              [row EXCEPT !.quantity =
                   @ + QuantityOf(items, LinesMatchedTo(items, row.id))]
                  \in RowsOf(pantry_table')
        /\ Cardinality({ i \in DOMAIN pantry_table' :
                           /\ pantry_table'[i].id \notin old_ids
                           /\ pantry_table'[i].source = "receipt" })
              = Cardinality(LinesUnmatched(items))
        /\ Len(pantry_table') = Len(pantry_table) + Cardinality(LinesUnmatched(items))
        /\ confirm_response'.items_created = n
        /\ confirm_response'.pantry_items_updated
              + confirm_response'.pantry_items_created = n

\* C20: after confirm_receipt with update_pantry = true on a request of n
\* lines, n receipt items are stored under the request's batch_id, every
\* pantry item that existed before has its quantity increased by the sum of
\* the quantities of the lines matched to it, exactly one new pantry item
\* with source "receipt" exists per unmatched line, and the response has
\* items_created = n and pantry_items_updated + pantry_items_created = n.
C20_ConfirmStoresEveryLine ==
    [][confirm_call'.update_pantry => ConfirmStoresEveryLine]_vars

RECURSIVE Reached(_, _)
\* the selection of the first pass when its loop reaches position i of the
\* scored list (i = Len + 1: when the loop is over)
Reached(scored, i) ==
    IF i = 1 THEN <<>>
    ELSE LET sel == Reached(scored, i - 1)
             recipe == scored[i - 1][1]
         IN  IF \/ Len(sel) >= PlanDays
                \/ recipe.id \in Ids(sel)
                \/ VarietySkips(recipe, sel, scored)
             THEN sel
             ELSE Append(sel, recipe)

\* the candidate at position i is reached with a free slot and is not yet used
Considered(scored, i) ==
    /\ Len(Reached(scored, i)) < PlanDays
    /\ scored[i][1].id \notin Ids(Reached(scored, i))

\* available > remaining_slots * 1.5 when position i is reached
Abundant(scored, i) ==
    2 * Cardinality({ j \in DOMAIN scored : scored[j][1].id \notin Ids(Reached(scored, i)) })
        > 3 * (PlanDays - Len(Reached(scored, i)))

\* the candidate at position i shares a cuisine tag with the recipe selected last
SharesLast(scored, i) ==
    /\ Reached(scored, i) # <<>>
    /\ scored[i][1].cuisine_tags
           \cap Reached(scored, i)[Len(Reached(scored, i))].cuisine_tags # {}

\* C23: in the first pass a not-yet-used candidate sharing a cuisine tag with
\* the most recently selected recipe is skipped exactly when
\* available > remaining_slots * 1.5 and accepted otherwise; a candidate
\* sharing no tag, and the very first candidate, are always accepted.
C23_VarietySkip ==
    selected_out # NotSelected =>
        /\ \A i \in DOMAIN scored_in :
              Considered(scored_in, i) =>
                  /\ (SharesLast(scored_in, i) /\ Abundant(scored_in, i))
                         => Reached(scored_in, i + 1) = Reached(scored_in, i)
                  /\ ~(SharesLast(scored_in, i) /\ Abundant(scored_in, i))
                         => Reached(scored_in, i + 1)
                                = Append(Reached(scored_in, i), scored_in[i][1])
        /\ scored_in # <<>> => Reached(scored_in, 2) = <<scored_in[1][1]>>
        /\ Ids(Reached(scored_in, Len(scored_in) + 1)) \subseteq Ids(selected_out)

\* a candidate sharing a tag with the last selected recipe was accepted with
\* available = remaining_slots * 1.5, and another was skipped
C23_Witness ==
    /\ selected_out # NotSelected
    /\ \E i \in DOMAIN scored_in :
          /\ Considered(scored_in, i) /\ SharesLast(scored_in, i)
          /\ 2 * Cardinality({ j \in DOMAIN scored_in :
                                 scored_in[j][1].id \notin Ids(Reached(scored_in, i)) })
                 = 3 * (PlanDays - Len(Reached(scored_in, i)))
    /\ \E i \in DOMAIN scored_in :
          Considered(scored_in, i) /\ SharesLast(scored_in, i) /\ Abundant(scored_in, i)

\* C24: the final shuffle only permutes positions 2 to 6: the 7 selected
\* recipes are the same before and after, day 1 stays the recipe selected
\* first (the highest-scored candidate) and day 7 the recipe selected seventh.
C24_ShuffleMiddleOnly ==
    (selected_out # NotSelected /\ Len(selected_out) = PlanDays) =>
        /\ Len(SelectedBeforeShuffle(scored_in)) = PlanDays
        /\ Range(selected_out) = Range(SelectedBeforeShuffle(scored_in))
        /\ Cardinality(Ids(selected_out)) = PlanDays
        /\ selected_out[1] = SelectedBeforeShuffle(scored_in)[1]
        /\ selected_out[1] = scored_in[1][1]
        /\ selected_out[PlanDays] = SelectedBeforeShuffle(scored_in)[PlanDays]
        /\ { selected_out[k] : k \in 2..6 }
               = { SelectedBeforeShuffle(scored_in)[k] : k \in 2..6 }

\* a selection of 7 whose middle was reordered by the shuffle
C24_Witness ==
    /\ selected_out # NotSelected
    /\ Len(selected_out) = PlanDays
    /\ selected_out # SelectedBeforeShuffle(scored_in)

\* the protein term of the score: the result without the base of 50, the
\* three other terms and the random draw
ProteinTerm ==
    recipe_score.value - 50 * ScoreScale - CuisineScore(score_recipe, score_request)
        - TimeScore(score_recipe) - CostScore(score_recipe) - recipe_score.jitter

\* C25: with a protein goal g set in the request (any g >= 0, including 0),
\* the protein term of the score is max(0, 25 - 1.25 * |protein - g|); only
\* with no protein goal set is it min(15, protein / 3).
C25_ProteinTermForEveryGoal ==
    recipe_score.scored =>
        IF score_request.protein_goal # None
        THEN ProteinTerm
                 = Max(0, 25 * ScoreScale
                          - 15 * Abs(score_recipe.protein_estimate
                                     - score_request.protein_goal))
        ELSE ProteinTerm = Min(15 * ScoreScale, 4 * score_recipe.protein_estimate)

\* C26: _score_recipe returns a score between 0 and 100 for every recipe and
\* every request, and the cuisine-preference term contributes at most 15.
C26_ScoreWithinHundred ==
    recipe_score.scored =>
        /\ 0 <= recipe_score.value /\ recipe_score.value <= 100 * ScoreScale
        /\ CuisineScore(score_recipe, score_request) <= 15 * ScoreScale

\* C27: confirm_receipt with update_pantry = false stores the receipt items
\* of the batch, leaves every pantry item unchanged (no quantity change, no
\* item created) and reports pantry_items_updated = 0 and
\* pantry_items_created = 0.
C27_ReceiptOnly ==
    [][~confirm_call'.update_pantry =>
           /\ pantry_table' = pantry_table
           /\ Len(receipt_table') = Len(receipt_table) + Len(confirm_call'.items)
           /\ SubSeq(receipt_table', 1, Len(receipt_table)) = receipt_table
           /\ \A i \in 1..Len(confirm_call'.items) :
                 /\ receipt_table'[Len(receipt_table) + i].receipt_batch_id
                        = confirm_call'.batch_id
                 /\ receipt_table'[Len(receipt_table) + i].raw_name
                        = confirm_call'.items[i].raw_name
                 /\ receipt_table'[Len(receipt_table) + i].quantity
                        = confirm_call'.items[i].quantity
           /\ confirm_response'.status = 201
           /\ confirm_response'.items_created = Len(confirm_call'.items)
           /\ confirm_response'.pantry_items_updated = 0
           /\ confirm_response'.pantry_items_created = 0
      ]_vars

\* a confirmation without pantry update of two lines, one matched to a
\* pantry item and one matched to none
C27_Witness ==
    /\ confirm_response.status = 201
    /\ ~confirm_call.update_pantry
    /\ Len(confirm_call.items) = 2
    /\ \E i, j \in DOMAIN receipt_table :
          /\ receipt_table[i].receipt_batch_id = confirm_call.batch_id
          /\ receipt_table[j].receipt_batch_id = confirm_call.batch_id
          /\ receipt_table[i].matched_pantry_item_id # None
          /\ receipt_table[j].matched_pantry_item_id = None

\* a step of the session that answers a request of this route
Answers(route) == op_count' = op_count + 1 /\ last_op'.route = route

\* C22: delete_receipt(batch_id) removes all and only the stored receipt
\* items of that batch and returns their count; it leaves every pantry item
\* unchanged and leaves other batches unchanged; when the batch has no items
\* it answers 404 and changes nothing.
C22_DeleteReceipt ==
    [][Answers("DELETE /receipts") =>
           /\ pantry_table' = pantry_table
           /\ IF \E i \in DOMAIN receipt_table :
                     receipt_table[i].receipt_batch_id = last_op'.batch_id
              THEN /\ last_op'.status = 200
                   /\ last_op'.count
                          = Cardinality({ i \in DOMAIN receipt_table :
                                receipt_table[i].receipt_batch_id = last_op'.batch_id })
                   /\ receipt_table'
                          = SelectSeq(receipt_table,
                                      LAMBDA item :
                                          item.receipt_batch_id # last_op'.batch_id)
              ELSE /\ last_op'.status = 404
                   /\ receipt_table' = receipt_table
      ]_vars

\* a batch of receipt items was deleted while a pantry item its confirmation
\* created is still there
C22_Witness ==
    /\ last_op.route = "DELETE /receipts"
    /\ last_op.status = 200
    /\ last_op.count >= 1
    /\ confirm_response.status = 201
    /\ confirm_call.batch_id = last_op.batch_id
    /\ \E i \in DOMAIN pantry_table : pantry_table[i].source = "receipt"

\* C28: after any sequence of validated inventory and receipt requests every
\* pantry item that exists has quantity > 0.
C28_QuantitiesPositive ==
    \A i \in DOMAIN pantry_table : pantry_table[i].quantity > 0

\* an item was consumed down to nothing and deleted while a pantry item
\* remains, after a confirmation added to the pantry
C28_Witness ==
    /\ last_op.route = "POST /inventory/consume"
    /\ consume_response = [status |-> 200, item |-> <<>>]
    /\ confirm_response.status = 201
    /\ pantry_table # <<>>

\* C29: confirm_receipt is all-or-nothing: when a step of the confirmation
\* raises, neither the batch's receipt items nor any pantry change of the
\* request is persisted; when the request succeeds they are all persisted.
C29_AllOrNothing ==
    [][Answers("POST /ingest-receipt/confirm") =>
           IF confirm_response'.status # 201
           THEN /\ pantry_table' = pantry_table
                /\ receipt_table' = receipt_table
           ELSE /\ Len(receipt_table') = Len(receipt_table) + Len(confirm_call'.items)
                /\ \A i \in (Len(receipt_table) + 1)..Len(receipt_table') :
                      receipt_table'[i].receipt_batch_id = confirm_call'.batch_id
                /\ confirm_call'.update_pantry =>
                      /\ confirm_response'.pantry_items_created
                             = Len(pantry_table') - Len(pantry_table)
                      /\ confirm_response'.pantry_items_updated
                             + confirm_response'.pantry_items_created
                             = Len(confirm_call'.items)
      ]_vars

\* a confirmation failed on its second line after its first line had been
\* matched to a pantry item, and that item is as it was
C29_Witness ==
    /\ last_op.route = "POST /ingest-receipt/confirm"
    /\ last_op.status = 500
    /\ Len(confirm_call.items) = 2
    /\ \E i \in DOMAIN pantry_table :
          FindBestMatch(confirm_call.items[1].raw_name,
                        GetAllPantryItemsForMatching(pantry_table),
                        DefaultThreshold).id = pantry_table[i].id

\* the quantity of the pantry item with this id, 0 when there is none
StockOf(table, id) ==
    IF \E j \in DOMAIN table : table[j].id = id
    THEN table[CHOOSE j \in DOMAIN table : table[j].id = id].quantity
    ELSE 0

\* the quantities of the previewed lines that were matched to this pantry item
PreviewedFor(id) ==
    SeqSum([i \in DOMAIN preview.items |->
               IF preview.items[i].pantry_match_id = id
               THEN preview.items[i].quantity ELSE 0])

\* the step confirms the batch of the preview with the lines of the preview
ConfirmsPreview ==
    /\ Answers("POST /ingest-receipt/confirm")
    /\ preview.created
    /\ confirm_call' = ConfirmOfPreview
    /\ confirm_response'.status = 201

\* the confirmation does to the pantry what the preview showed
AsPreviewed ==
    \A i \in DOMAIN preview.items :
        IF preview.items[i].will_create_new
        THEN \E j \in DOMAIN pantry_table' :
                /\ pantry_table'[j].name = Strip(preview.items[i].raw_name)
                /\ pantry_table'[j].source = "receipt"
                /\ \A k \in DOMAIN pantry_table :
                      pantry_table[k].id # pantry_table'[j].id
        ELSE /\ \E j \in DOMAIN pantry_table' :
                    pantry_table'[j].id = preview.items[i].pantry_match_id
             /\ StockOf(pantry_table', preview.items[i].pantry_match_id)
                    = StockOf(pantry_table, preview.items[i].pantry_match_id)
                      + PreviewedFor(preview.items[i].pantry_match_id)

\* C21: what the preview shows is what confirmation does: a line previewed
\* with will_create_new leads to a new pantry item and a line previewed with
\* pantry_match_id = p adds its quantity to pantry item p, whatever inventory
\* requests run between the preview and the confirmation.
C21_PreviewIsConfirmation == [][ConfirmsPreview => AsPreviewed]_vars

\* the change a request makes to the quantity when it succeeds
Change(session) ==
    IF session.route = "confirm" THEN session.amount ELSE 0 - session.amount

\* both requests succeeded and each changed the quantity of the item
BothChanged ==
    /\ db_sessions # <<>>
    /\ \A s \in DOMAIN db_sessions :
          db_sessions[s].pc = "committed" /\ db_sessions[s].writes = "update"

\* C30: no quantity change is lost under concurrency: when two requests that
\* change the same pantry item's quantity run interleaved in separate sessions
\* and both succeed, the final quantity is the initial quantity plus every
\* confirmed quantity minus every consumed quantity.
C30_NoLostUpdate ==
    BothChanged =>
        database.quantity
            = start_quantity
              + SeqSum([s \in DOMAIN db_sessions |-> Change(db_sessions[s])])

====
